---- MODULE Spec2Model ----
(***************************************************************************)
(* Verification model of the multi-agent decision system.                  *)
(*                                                                         *)
(*   Spec            the schema-validated pipeline (main_direct.run) with  *)
(*                   the provider retry policy and the source resolver     *)
(*   SpecResolver    utils/source_resolver.resolve_queries_to_urls         *)
(*   SpecFactory     agent_factory.analyze_topic_and_generate_agents       *)
(*   SpecAnalysis    collaboration_system.process_agent_interactions       *)
(*   SpecDiscussion  main_intelligent_collaboration round loop             *)
(*   SpecChat        main_local speaker selection                          *)
(*   SpecExtended    main_extended.run_extended_conversation               *)
(*   SpecLlm         local_llm.get_llm_provider                            *)
(*   SpecSessions    session files of intelligent collaboration runs       *)
(*   SpecDashboard   streamlit_app.main                                    *)
(*   SpecConnection  check_lmstudio.check_lmstudio_connection              *)
(*   SpecCli         the entry points under a keyboard interrupt           *)
(*   SpecSearch      web_search_agent simulators                           *)
(*   SpecListing     result_analyzer.list_available_sessions               *)
(*   SpecClassifier  _extract_opinion_from_response on texts               *)
(*   SpecTools       mcp_integration.suggest_tools_for_context             *)
(*   SpecSessionResult run_intelligent_discussion session result           *)
(***************************************************************************)
EXTENDS Integers, Sequences, FiniteSets, TLC

(***************************************************************************)
(* Bounds of the model and constants of the program.                       *)
(***************************************************************************)
MaxSources == 2
MaxQueryIds == 1
MaxScore == 1
MaxOpinions == 4
MaxAgents == 2
MaxRounds == 2
MaxInputs == 1
MaxPaths == 2
MaxCalls == 3
MaxClock == 2
MaxSystems == 2
MaxRuns == 3
MaxSessions == 2
MaxModels == 2
MaxTurns == 4
MaxSearches == 6
MaxFiles == 3
MaxWords == 2
MaxTries == 5
ArbiterAttempts == 5
MaxRound == 6
ExtMaxRounds == 5

\* an optional value: None or Some(x)
None == <<>>
Some(x) == <<x>>
\* the outcome of a call: it raised, or it returned `value`
Raised == [raised |-> TRUE, value |-> <<>>]
Returned(x) == [raised |-> FALSE, value |-> x]

VARIABLES
    \* ---- main_direct.run ------------------------------------------------
    provider,      \* "openai" | "lmstudio"
    api_key,       \* TAVILY_API_KEY is set in the environment
    pc,            \* position of run()
    step,          \* the step counter of run()
    steps,         \* the step files written by SessionLogger.save_step, in order
    attempt,       \* index of the arbiter loop (for attempt in range(5))
    messages,      \* number of turns in the arbiter's message list
    arbOuts,       \* history: was each validated arbiter reply schema-valid
    decision,      \* the local `decision`
    validated,     \* history: the document validate_json_schema accepted
    resolveRaised, \* history: resolve_queries_to_urls raised in postprocess
    printed,       \* what run() printed as the decision
    callState,     \* state of the llm.complete call in progress
    tries,         \* backoff: HTTP attempts made by the call in progress
    httpLog,       \* history: outcome of each HTTP attempt of the call
    callResult     \* value returned / exception propagated by the call

VARIABLES
    \* ---- utils/source_resolver.resolve_queries_to_urls, called alone ----
    r_pc,          \* "call" before the call, "done" after it
    r_key,         \* TAVILY_API_KEY is set
    r_sources,     \* the argument `sources`
    r_result       \* the outcome of the call

VARIABLES
    \* ---- AgentFactory.analyze_topic_and_generate_agents ------------------
    f_pc,          \* "call" | "done"
    f_topic,       \* the topic: how many keywords of each area it contains
    f_num_agents,  \* the argument num_agents
    f_selected     \* expertise areas of the returned profiles, in order

VARIABLES
    \* ---- CollaborationOrchestrator.process_agent_interactions ------------
    a_pc,          \* "call" | "done"
    a_opinions,    \* the argument `opinions`: their opinion types, in order
    a_analysis     \* the returned analysis

VARIABLES
    \* ---- IntelligentCollaborationSystem.run_intelligent_discussion -------
    d_pc,          \* phase of the run
    d_topic,       \* the topic
    d_num_agents,  \* the argument num_agents
    d_max_rounds,  \* the argument max_rounds
    d_agents,      \* the generated agents (their expertise areas)
    d_round_num,   \* the loop variable round_num (0 before the loop)
    d_results,     \* discussion_results
    d_opinions,    \* opinions of the round in progress
    d_context,     \* the context _prepare_discussion_context built for it
    d_conclusion   \* final_conclusion

pipeVars == <<provider, api_key, pc, step, steps, attempt, messages, arbOuts,
              decision, validated, resolveRaised, printed, callState, tries,
              httpLog, callResult>>
resVars == <<r_pc, r_key, r_sources, r_result>>
facVars == <<f_pc, f_topic, f_num_agents, f_selected>>
anaVars == <<a_pc, a_opinions, a_analysis>>
disVars == <<d_pc, d_topic, d_num_agents, d_max_rounds, d_agents, d_round_num,
             d_results, d_opinions, d_context, d_conclusion>>

\* a component that the specification at hand does not run
NoPipeline ==
    /\ provider = "openai" /\ api_key = FALSE /\ pc = "off" /\ step = 0
    /\ steps = <<>> /\ attempt = 0 /\ messages = 0 /\ arbOuts = <<>>
    /\ decision = <<>> /\ validated = <<>> /\ resolveRaised = FALSE
    /\ printed = <<>> /\ callState = "idle" /\ tries = 0 /\ httpLog = <<>>
    /\ callResult = [kind |-> "none", n |-> 0]
NoResolver ==
    /\ r_pc = "off" /\ r_key = FALSE /\ r_sources = <<>>
    /\ r_result = [raised |-> FALSE, value |-> <<>>]
NoFactory ==
    /\ f_pc = "off" /\ f_topic = <<>> /\ f_num_agents = 0 /\ f_selected = <<>>
NoAnalysis ==
    /\ a_pc = "off" /\ a_opinions = <<>> /\ a_analysis = <<>>
NoDiscussion ==
    /\ d_pc = "off" /\ d_topic = <<>> /\ d_num_agents = 0 /\ d_max_rounds = 0
    /\ d_agents = <<>> /\ d_round_num = 0 /\ d_results = <<>>
    /\ d_opinions = <<>> /\ d_context = <<>> /\ d_conclusion = <<>>

VARIABLES
    \* ---- main_local.run_conversation: the group chat --------------------
    g_pc,          \* "chat" | "ended" | "failed" | "saved"
    g_max_round,   \* the max_round of the group chat
    g_messages,    \* group_chat.messages: who spoke, in order
    g_last,        \* the speaker of the last message
    g_round        \* the rounds of the manager's loop begun so far

chatVars == <<g_pc, g_max_round, g_messages, g_last, g_round>>

NoChat ==
    /\ g_pc = "off" /\ g_max_round = 0 /\ g_messages = <<>>
    /\ g_last = "nobody" /\ g_round = 0

VARIABLES
    \* ---- ExtendedMultiAgentSystem.run_extended_conversation -------------
    e_pc,            \* "round" | "prompt" | "ending" | "saved"
    e_round_num,     \* the loop variable round_num
    e_round_count,   \* conversation_manager.round_count
    e_current_input, \* current_input
    e_history,       \* conversation_manager.conversation_history
    e_rounds,        \* per round run: the user_input it got, the judge's reply
    e_choices        \* what the operator answered after each round

extVars == <<e_pc, e_round_num, e_round_count, e_current_input, e_history,
             e_rounds, e_choices>>

NoExtended ==
    /\ e_pc = "off" /\ e_round_num = 0 /\ e_round_count = 0
    /\ e_current_input = <<>> /\ e_history = <<>> /\ e_rounds = <<>>
    /\ e_choices = <<>>

VARIABLES
    \* ---- local_llm: the process-wide provider ---------------------------
    l_provider,    \* _llm_provider: None, or the provider (its model path)
    l_loaded,      \* the model paths Llama(...) has loaded, in order
    l_calls        \* the calls made: function, path asked for, outcome

llmVars == <<l_provider, l_loaded, l_calls>>

NoLlm == l_provider = "off" /\ l_loaded = <<>> /\ l_calls = <<>>

VARIABLES
    \* ---- session logs of IntelligentCollaborationSystem -----------------
    s_clock,       \* datetime.now(), in whole seconds
    s_systems,     \* the session_id of each system instance created
    s_runs,        \* the runs that saved their log: the file each wrote
    s_files        \* intelligent_collaboration_logs: file name -> run owning it

sesVars == <<s_clock, s_systems, s_runs, s_files>>

NoSessions ==
    s_clock = 0 /\ s_systems = <<>> /\ s_runs = <<>> /\ s_files = {}

VARIABLES
    \* ---- streamlit_app.main: one run of the dashboard script ------------
    u_pc,          \* "run" | "rendered"
    u_mode,        \* the mode chosen in the sidebar
    u_modules,     \* MODULES_LOADED
    u_api_key,     \* whether OPENAI_API_KEY is set
    u_sessions,    \* how many sessions load_available_sessions finds
    u_submitted,   \* whether the form was submitted
    u_topic,       \* whether the topic typed is non-empty
    u_page,        \* what was rendered, in order
    u_live_run     \* whether run_intelligent_discussion was started

dashVars == <<u_pc, u_mode, u_modules, u_api_key, u_sessions, u_submitted,
              u_topic, u_page, u_live_run>>

NoDashboard ==
    /\ u_pc = "off" /\ u_mode = "new" /\ u_modules = FALSE
    /\ u_api_key = FALSE /\ u_sessions = 0 /\ u_submitted = FALSE
    /\ u_topic = FALSE /\ u_page = <<>> /\ u_live_run = FALSE

VARIABLES
    \* ---- check_lmstudio.check_lmstudio_connection -----------------------
    c_pc,          \* "probe" | "chat" | "done"
    c_probe,       \* what GET /models does
    c_chat,        \* what POST /chat/completions does
    c_printed,     \* the lines printed, in order
    c_result       \* the value returned (None before the return)

connVars == <<c_pc, c_probe, c_chat, c_printed, c_result>>

NoConnection ==
    /\ c_pc = "off" /\ c_probe = <<>> /\ c_chat = <<>> /\ c_printed = <<>>
    /\ c_result = <<>>

VARIABLES
    \* ---- the interactive command-line entry points -----------------------
    k_entry,       \* which entry point runs
    k_pc,          \* "calling" | "prompt" | "finished" | "aborted"
    k_log,         \* the log data accumulated so far (one entry per reply)
    k_file,        \* the log file on disk (None while not written)
    k_interrupted  \* a KeyboardInterrupt was raised during the run

cliVars == <<k_entry, k_pc, k_log, k_file, k_interrupted>>

NoCli ==
    /\ k_entry = "none" /\ k_pc = "off" /\ k_log = <<>> /\ k_file = <<>>
    /\ k_interrupted = FALSE

VARIABLES
    \* ---- web_search_agent: WebSearchAgent, FactChecker, TrendAnalyzer -----
    w_searches,    \* len(search_history)
    w_fact_cache,  \* fact_check_cache, a set of [key, value]
    w_trend_cache, \* trend_cache, a set of [key, value]
    w_last         \* the last call: its arguments and what it did

searchVars == <<w_searches, w_fact_cache, w_trend_cache, w_last>>

NoSearch ==
    /\ w_searches = 0 /\ w_fact_cache = {} /\ w_trend_cache = {}
    /\ w_last = <<>>

VARIABLES
    \* ---- result_analyzer.ResultAnalyzer.list_available_sessions -----------
    n_clock,       \* the wall clock, in seconds
    n_dir,         \* the files of intelligent_collaboration_logs
    n_listing      \* what list_available_sessions returned last (None before)

listVars == <<n_clock, n_dir, n_listing>>

NoListing == n_clock = 0 /\ n_dir = {} /\ n_listing = <<>>

VARIABLES
    \* ---- _extract_opinion_from_response as a function of the reply text ---
    q_response,    \* the reply text, a sequence of words
    q_opinion      \* the opinion type extracted from it (None before)

classVars == <<q_response, q_opinion>>

NoClassifier == q_response = <<>> /\ q_opinion = <<"off">>

VARIABLES
    \* ---- mcp_integration: suggest_tools_for_context -----------------------
    t_available,   \* available_tools: tool -> BOOLEAN
    t_context,     \* which keyword groups the context text holds
    t_role,        \* agent_role
    t_suggestions  \* the list returned (None before the call)

toolVars == <<t_available, t_context, t_role, t_suggestions>>

NoTools ==
    /\ t_available = <<>> /\ t_context = <<>> /\ t_role = "none"
    /\ t_suggestions = <<"off">>

VARIABLES
    \* ---- run_intelligent_discussion: the session result --------------------
    v_pc,          \* "phase1" | "phase2" | "round" | "phase4" | "done" | "error"
    v_topic,       \* the argument topic
    v_num_agents,  \* the argument num_agents
    v_max_rounds,  \* the argument max_rounds
    v_agents,      \* the profiles the factory returned
    v_rounds,      \* len(discussion_results)
    v_result       \* session_result (None before it is built)

resultVars == <<v_pc, v_topic, v_num_agents, v_max_rounds, v_agents, v_rounds,
                v_result>>

NoResult ==
    /\ v_pc = "off" /\ v_topic = <<>> /\ v_num_agents = 0 /\ v_max_rounds = 0
    /\ v_agents = <<>> /\ v_rounds = 0 /\ v_result = <<"off">>

\* the components added to the first five
laterVars == <<chatVars, extVars, llmVars, sesVars, dashVars, connVars>>
NoLater ==
    NoChat /\ NoExtended /\ NoLlm /\ NoSessions /\ NoDashboard /\ NoConnection

\* the components of the remaining entry points and simulators
lastVars == <<cliVars, searchVars, listVars, classVars, toolVars, resultVars>>
NoLast ==
    NoCli /\ NoSearch /\ NoListing /\ NoClassifier /\ NoTools /\ NoResult

vars == <<pipeVars, resVars, facVars, anaVars, disVars,
          laterVars, lastVars>>

\* the components a specification does not run: they stay as they start
butPipeline == <<resVars, facVars, anaVars, disVars,
    laterVars, lastVars>>
butResolver == <<pipeVars, facVars, anaVars, disVars,
    laterVars, lastVars>>
butFactory == <<pipeVars, resVars, anaVars, disVars,
    laterVars, lastVars>>
butAnalysis == <<pipeVars, resVars, facVars, disVars,
    laterVars, lastVars>>
butDiscussion == <<pipeVars, resVars, facVars, anaVars,
    laterVars, lastVars>>
firstVars == <<pipeVars, resVars, facVars, anaVars, disVars>>
NoFirst == NoPipeline /\ NoResolver /\ NoFactory /\ NoAnalysis /\ NoDiscussion
butChat ==
    <<firstVars, extVars, llmVars, sesVars, dashVars, connVars,
      lastVars>>
butExtended ==
    <<firstVars, chatVars, llmVars, sesVars, dashVars, connVars,
      lastVars>>
butLlm ==
    <<firstVars, chatVars, extVars, sesVars, dashVars, connVars,
      lastVars>>
butSessions ==
    <<firstVars, chatVars, extVars, llmVars, dashVars, connVars,
      lastVars>>
butDashboard ==
    <<firstVars, chatVars, extVars, llmVars, sesVars, connVars,
      lastVars>>
butConnection ==
    <<firstVars, chatVars, extVars, llmVars, sesVars, dashVars,
      lastVars>>
butCli ==
    <<firstVars, laterVars,
      searchVars, listVars, classVars, toolVars, resultVars>>
butSearch ==
    <<firstVars, laterVars,
      cliVars, listVars, classVars, toolVars, resultVars>>
butListing ==
    <<firstVars, laterVars,
      cliVars, searchVars, classVars, toolVars, resultVars>>
butClassifier ==
    <<firstVars, laterVars,
      cliVars, searchVars, listVars, toolVars, resultVars>>
butTools ==
    <<firstVars, laterVars,
      cliVars, searchVars, listVars, classVars, resultVars>>
butResult ==
    <<firstVars, laterVars,
      cliVars, searchVars, listVars, classVars, toolVars>>
OnlyPipeline ==
    NoResolver /\ NoFactory /\ NoAnalysis /\ NoDiscussion
    /\ NoLater /\ NoLast
OnlyResolver ==
    NoPipeline /\ NoFactory /\ NoAnalysis /\ NoDiscussion
    /\ NoLater /\ NoLast
OnlyFactory ==
    NoPipeline /\ NoResolver /\ NoAnalysis /\ NoDiscussion
    /\ NoLater /\ NoLast
OnlyAnalysis ==
    NoPipeline /\ NoResolver /\ NoFactory /\ NoDiscussion
    /\ NoLater /\ NoLast
OnlyDiscussion ==
    NoPipeline /\ NoResolver /\ NoFactory /\ NoAnalysis
    /\ NoLater /\ NoLast
OnlyChat ==
    NoFirst /\ NoExtended /\ NoLlm /\ NoSessions /\ NoDashboard /\ NoConnection
    /\ NoLast
OnlyExtended ==
    NoFirst /\ NoChat /\ NoLlm /\ NoSessions /\ NoDashboard /\ NoConnection
    /\ NoLast
OnlyLlm ==
    NoFirst /\ NoChat /\ NoExtended /\ NoSessions /\ NoDashboard /\ NoConnection
    /\ NoLast
OnlySessions ==
    NoFirst /\ NoChat /\ NoExtended /\ NoLlm /\ NoDashboard /\ NoConnection
    /\ NoLast
OnlyDashboard ==
    NoFirst /\ NoChat /\ NoExtended /\ NoLlm /\ NoSessions /\ NoConnection
    /\ NoLast
OnlyConnection ==
    NoFirst /\ NoChat /\ NoExtended /\ NoLlm /\ NoSessions /\ NoDashboard
    /\ NoLast
OnlyCli ==
    NoFirst /\ NoLater
    /\ NoSearch
    /\ NoListing
    /\ NoClassifier
    /\ NoTools
    /\ NoResult
OnlySearch ==
    NoFirst /\ NoLater
    /\ NoCli
    /\ NoListing
    /\ NoClassifier
    /\ NoTools
    /\ NoResult
OnlyListing ==
    NoFirst /\ NoLater
    /\ NoCli
    /\ NoSearch
    /\ NoClassifier
    /\ NoTools
    /\ NoResult
OnlyClassifier ==
    NoFirst /\ NoLater
    /\ NoCli
    /\ NoSearch
    /\ NoListing
    /\ NoTools
    /\ NoResult
OnlyTools ==
    NoFirst /\ NoLater
    /\ NoCli
    /\ NoSearch
    /\ NoListing
    /\ NoClassifier
    /\ NoResult
OnlyResult ==
    NoFirst /\ NoLater
    /\ NoCli
    /\ NoSearch
    /\ NoListing
    /\ NoClassifier
    /\ NoTools

(***************************************************************************)
(* Helpers.                                                                *)
(***************************************************************************)
SeqsUpTo(S, n) == UNION {[1..k -> S] : k \in 0..n}

(***************************************************************************)
(* Source entries of a decision document.                                  *)
(*   url      a dict with a "url" key                                      *)
(*   query    a dict {"query": q} with a non-empty q                       *)
(*   emptyq   a dict {"query": ""}: the key is there, the value is empty   *)
(*   other    a dict with neither a "url" nor a "query" key                *)
(*   text     an entry that is not a dict (a plain string citation)        *)
(*   resolved the {url, title, quote} dict built from query v's top result *)
(***************************************************************************)
SourceEntries ==
    [kind : {"url", "query"}, v : 1..MaxQueryIds]
    \cup {[kind |-> k, v |-> 0] : k \in {"emptyq", "other", "text"}}

NetOutcomes == {"hit", "empty", "error"}

HasUrl(s) == s.kind \in {"url", "resolved"}

\* s.get("query") is truthy
HasQuery(s) == s.kind = "query"

Resolved(s) == [kind |-> "resolved", v |-> s.v]

RECURSIVE ResolveLoop(_, _, _)
\* the for loop of resolve_queries_to_urls over sources[i..], net[i] being
\* what the search request for entry i does
ResolveLoop(sources, net, i) ==
    IF i > Len(sources) THEN Returned(<<>>)
    ELSE LET s == sources[i]
             rest == ResolveLoop(sources, net, i + 1)
             put(x) == IF rest.raised THEN Raised
                       ELSE Returned(x \o rest.value)
         IN  IF HasUrl(s) THEN put(<<s>>)
             ELSE IF s.kind = "text" THEN Raised     \* str has no .get
             ELSE IF ~HasQuery(s) THEN put(<<>>)     \* continue
             ELSE IF net[i] = "hit" THEN put(<<Resolved(s)>>)
             ELSE put(<<s>>)        \* no result, or the request raised

resolve_queries_to_urls(sources, key, net) ==
    IF ~key THEN Returned(sources) ELSE ResolveLoop(sources, net, 1)

(***************************************************************************)
(* Arbiter replies and validate_json_schema.                               *)
(***************************************************************************)
Payloads ==
    [parses : BOOLEAN, nactions : 0..1, nrisks : 0..1,
     sources : SeqsUpTo(SourceEntries, MaxSources)]

SchemaConforms(p) ==
    p.nactions >= 1 /\ p.nrisks >= 1 /\ Len(p.sources) >= 1

\* variant: the reply is parsed but never checked against the schema
validate_json_only(p) ==
    IF ~p.parses THEN Raised ELSE Returned(p)

validate_json_schema(p) ==
    IF ~p.parses THEN Raised                 \* json.loads
    ELSE IF ~SchemaConforms(p) THEN Raised   \* jsonschema.validate
    ELSE Returned(p)

(***************************************************************************)
(* SessionLogger.save_step                                                 *)
(***************************************************************************)
save_step(log, n, role, error, output) ==
    Append(log, [n |-> n, role |-> role, error |-> error, output |-> output])

(***************************************************************************)
(* The pipeline: main_direct.run                                           *)
(***************************************************************************)
NewCall ==
    /\ callState' = "calling"
    /\ tries' = 0
    /\ httpLog' = <<>>
    /\ callResult' = [kind |-> "none", n |-> 0]

InitPipeline ==
    /\ provider \in {"openai", "lmstudio"}
    /\ api_key \in BOOLEAN
    /\ pc = "storyteller"
    /\ step = 0
    /\ steps = <<>>
    /\ attempt = 0
    /\ messages = 2
    /\ arbOuts = <<>>
    /\ decision = None
    /\ validated = None
    /\ resolveRaised = FALSE
    /\ printed = None
    /\ callState = "calling"
    /\ tries = 0
    /\ httpLog = <<>>
    /\ callResult = [kind |-> "none", n |-> 0]
    /\ OnlyPipeline

\* variant: the policy gives up one try early
GiveUpEarly(n) == n >= MaxTries - 1

\* backoff.on_exception(backoff.expo, Exception, max_tries=5) around one
\* HTTP request of complete(): a success returns, an exception is retried
\* unless this was try number max_tries
GiveUp(n) == n = MaxTries

ProviderAttempt ==
    /\ pc \in {"storyteller", "checker", "arbiter"}
    /\ callState = "calling"
    /\ tries' = tries + 1
    /\ \E ok \in BOOLEAN :
        /\ httpLog' = Append(httpLog, IF ok THEN "ok" ELSE "exc")
        /\ IF ok
           THEN /\ callState' = "returned"
                /\ callResult' = [kind |-> "reply", n |-> tries + 1]
           ELSE IF GiveUp(tries + 1)
           THEN /\ callState' = "raised"
                /\ callResult' = [kind |-> "exc", n |-> tries + 1]
           ELSE UNCHANGED <<callState, callResult>>
    /\ UNCHANGED <<provider, api_key, pc, step, steps, attempt, messages,
                   arbOuts, decision, validated, resolveRaised, printed>>
    /\ UNCHANGED butPipeline

\* an exception of llm.complete is caught nowhere in run()
ProviderFailure ==
    /\ pc \in {"storyteller", "checker", "arbiter"}
    /\ callState = "raised"
    /\ pc' = "failed"
    /\ callState' = "idle"
    /\ UNCHANGED <<provider, api_key, step, steps, attempt, messages, arbOuts,
                   decision, validated, resolveRaised, printed, tries,
                   httpLog, callResult>>
    /\ UNCHANGED butPipeline

\* variant: the storyteller's output is not persisted
StorytellerUnsaved ==
    /\ pc = "storyteller"
    /\ callState = "returned"
    /\ pc' = "checker"
    /\ NewCall
    /\ UNCHANGED <<provider, api_key, step, steps, attempt, messages, arbOuts,
                   decision, validated, resolveRaised, printed>>
    /\ UNCHANGED butPipeline

Storyteller ==
    /\ pc = "storyteller"
    /\ callState = "returned"
    /\ step' = step + 1
    /\ steps' = save_step(steps, step + 1, "storyteller", FALSE, None)
    /\ pc' = "checker"
    /\ NewCall
    /\ UNCHANGED <<provider, api_key, attempt, messages, arbOuts, decision,
                   validated, resolveRaised, printed>>
    /\ UNCHANGED butPipeline

Checker ==
    /\ pc = "checker"
    /\ callState = "returned"
    /\ step' = step + 1
    /\ steps' = save_step(steps, step + 1, "checker", FALSE, None)
    /\ pc' = "arbiter"
    /\ NewCall
    /\ UNCHANGED <<provider, api_key, attempt, messages, arbOuts, decision,
                   validated, resolveRaised, printed>>
    /\ UNCHANGED butPipeline

\* one iteration of `for attempt in range(5)` after llm.complete returned
Arbiter ==
    /\ pc = "arbiter"
    /\ callState = "returned"
    /\ \E out \in Payloads :
        LET v == validate_json_schema(out) IN
        /\ arbOuts' = Append(arbOuts, ~v.raised)
        /\ IF ~v.raised
           THEN /\ decision' = Some(v.value)
                /\ validated' = Some(v.value)
                /\ step' = step + 1
                /\ steps' = save_step(steps, step + 1, "arbiter",
                                      FALSE, Some(v.value))
                /\ pc' = "postprocess"
                /\ callState' = "idle"
                /\ UNCHANGED <<attempt, messages, tries, httpLog, callResult>>
           ELSE /\ messages' = messages + 1
                /\ IF attempt + 1 < ArbiterAttempts
                   THEN /\ attempt' = attempt + 1
                        /\ NewCall
                        /\ pc' = "arbiter"
                   ELSE /\ pc' = "fatal"       \* for ... else: raise RuntimeError
                        /\ callState' = "idle"
                        /\ UNCHANGED <<attempt, tries, httpLog, callResult>>
                /\ UNCHANGED <<decision, validated, step, steps>>
    /\ UNCHANGED <<provider, api_key, resolveRaised, printed>>
    /\ UNCHANGED butPipeline

\* any(isinstance(s, dict) and "query" in s for s in decision["sources"])
HasQuerySource(d) ==
    \E i \in 1..Len(d.sources) : d.sources[i].kind \in {"query", "emptyq"}

\* variant: the enriched copy is adopted before it is known to be complete,
\* so a raising resolver leaves the decision without its sources
PostprocessEager ==
    /\ pc = "postprocess"
    /\ IF HasQuerySource(decision[1])
       THEN \E net \in [1..Len(decision[1].sources) -> NetOutcomes] :
            LET r == resolve_queries_to_urls(decision[1].sources, api_key, net) IN
            /\ step' = step + 1
            /\ decision' = Some([decision[1] EXCEPT !.sources = r.value])
            /\ IF ~r.raised
               THEN /\ steps' = save_step(steps, step + 1, "postprocess",
                                        FALSE, Some(r.value))
                    /\ UNCHANGED resolveRaised
               ELSE /\ steps' = save_step(steps, step + 1, "postprocess",
                                        TRUE, None)
                    /\ resolveRaised' = TRUE
       ELSE UNCHANGED <<step, steps, decision, resolveRaised>>
    /\ pc' = "output"
    /\ UNCHANGED <<provider, api_key, attempt, messages, arbOuts, validated,
                   printed, callState, tries, httpLog, callResult>>
    /\ UNCHANGED butPipeline

\* the try block of the postprocess section
Postprocess ==
    /\ pc = "postprocess"
    /\ IF HasQuerySource(decision[1])
       THEN \E net \in [1..Len(decision[1].sources) -> NetOutcomes] :
            LET r == resolve_queries_to_urls(decision[1].sources, api_key, net) IN
            /\ step' = step + 1
            /\ IF ~r.raised
               THEN /\ steps' = save_step(steps, step + 1, "postprocess",
                                        FALSE, Some(r.value))
                    /\ decision' = Some([decision[1] EXCEPT !.sources = r.value])
                    /\ UNCHANGED resolveRaised
               ELSE /\ steps' = save_step(steps, step + 1, "postprocess",
                                        TRUE, None)
                    /\ resolveRaised' = TRUE
                    /\ UNCHANGED decision
       ELSE UNCHANGED <<step, steps, decision, resolveRaised>>
    /\ pc' = "output"
    /\ UNCHANGED <<provider, api_key, attempt, messages, arbOuts, validated,
                   printed, callState, tries, httpLog, callResult>>
    /\ UNCHANGED butPipeline

Output ==
    /\ pc = "output"
    /\ printed' = decision
    /\ pc' = "done"
    /\ UNCHANGED <<provider, api_key, step, steps, attempt, messages, arbOuts,
                   decision, validated, resolveRaised, callState, tries,
                   httpLog, callResult>>
    /\ UNCHANGED butPipeline

NextPipeline ==
    \/ ProviderAttempt
    \/ ProviderFailure
    \/ Storyteller
    \/ Checker
    \/ Arbiter
    \/ Postprocess
    \/ Output

Spec == InitPipeline /\ [][NextPipeline]_vars

AllInvalid(outs) == \A i \in 1..Len(outs) : ~outs[i]
StepsOf(role) == {i \in 1..Len(steps) : steps[i].role = role}

\* C1: when every arbiter reply fails JSON parsing or schema validation the
\* arbiter step makes exactly 5 attempts and the run then ends with the fatal
\* failure: there is never a 6th attempt, the loop is left as soon as 5
\* replies failed, and no invalid document is logged or printed as the decision.
C1_ArbiterExhausts ==
    /\ Len(arbOuts) <= 5
    /\ pc = "fatal" <=> (Len(arbOuts) = 5 /\ AllInvalid(arbOuts))
    /\ (AllInvalid(arbOuts) /\ Len(arbOuts) < 5)
          => pc \in {"storyteller", "checker", "arbiter", "failed"}
    /\ AllInvalid(arbOuts)
          => StepsOf("arbiter") = {} /\ decision = None /\ printed = None
    /\ \A i \in StepsOf("arbiter") :
          LET d == steps[i].output[1]
          IN  d.parses /\ d.nactions >= 1 /\ d.nrisks >= 1 /\ Len(d.sources) >= 1

C1_Witness == pc = "fatal" /\ Len(arbOuts) = 5

PipelineOrder == <<"storyteller", "checker", "arbiter", "postprocess">>

\* C2: the persisted steps are, in order, storyteller, checker, arbiter and
\* at most one postprocess step, with strictly increasing step numbers; no
\* role is persisted when its predecessor was not.
C2_StepOrder ==
    /\ Len(steps) <= 4
    /\ \A i \in 1..Len(steps) : steps[i].role = PipelineOrder[i]
    /\ \A i \in 1..Len(steps) - 1 : steps[i].n < steps[i + 1].n
    /\ Cardinality(StepsOf("postprocess")) <= 1

C2_Witness == Len(steps) = 4 /\ steps[4].role = "postprocess"

\* C3: postprocess is not fatal: when source resolution raised, the run goes
\* on to its output, the error is what the postprocess step logged, and the
\* decision printed is exactly the validated arbiter decision; the enriched
\* document replaces the decision only when resolution did not raise.
C3_PostprocessNonFatal ==
    /\ resolveRaised =>
          /\ pc \in {"output", "done"}
          /\ steps[Len(steps)].role = "postprocess"
          /\ steps[Len(steps)].error
          /\ decision = validated
    /\ pc = "done" => printed = decision
    /\ (pc \in {"output", "done"} /\ decision # validated) =>
          /\ ~resolveRaised
          /\ steps[Len(steps)].role = "postprocess"
          /\ ~steps[Len(steps)].error
          /\ steps[Len(steps)].output = Some(decision[1].sources)

C3_Witness == pc = "done" /\ resolveRaised /\ printed = validated

\* C4: a complete call makes at most 5 HTTP attempts; it returns the result
\* of the first attempt that succeeds, retries after an exception while
\* fewer than 5 attempts were made, and propagates the exception of the 5th
\* attempt when all 5 fail.
C4_ProviderRetry ==
    /\ tries <= 5
    /\ Len(httpLog) = tries
    /\ \A i \in 1..tries - 1 : httpLog[i] = "exc"
    /\ callState = "calling" => (tries < 5 /\ ENABLED ProviderAttempt)
    /\ callState = "returned" =>
          httpLog[tries] = "ok" /\ callResult = [kind |-> "reply", n |-> tries]
    /\ callState = "raised" =>
          /\ tries = 5
          /\ httpLog[5] = "exc"
          /\ callResult = [kind |-> "exc", n |-> 5]

C4_Witness == callState = "raised" /\ tries = 5

(***************************************************************************)
(* resolve_queries_to_urls called on any list of source entries.           *)
(***************************************************************************)
InitResolver ==
    /\ r_pc = "call"
    /\ r_key \in BOOLEAN
    /\ r_sources \in SeqsUpTo(SourceEntries, MaxSources)
    /\ r_result = Returned(<<>>)
    /\ OnlyResolver

ResolveCall ==
    /\ r_pc = "call"
    /\ \E net \in [1..Len(r_sources) -> NetOutcomes] :
        r_result' = resolve_queries_to_urls(r_sources, r_key, net)
    /\ r_pc' = "done"
    /\ UNCHANGED <<r_key, r_sources>>
    /\ UNCHANGED butResolver

NextResolver == ResolveCall

SpecResolver == InitResolver /\ [][NextResolver]_vars

\* C5: resolve_queries_to_urls never drops an entry: the list it returns has
\* the length and order of its input, each entry being the original entry
\* or its resolved replacement.
C5_NeverDrops ==
    (r_pc = "done" /\ ~r_result.raised) =>
        /\ Len(r_result.value) = Len(r_sources)
        /\ \A i \in 1..Len(r_sources) :
              \/ r_result.value[i] = r_sources[i]
              \/ /\ r_sources[i].kind = "query"
                 /\ r_result.value[i] = [kind |-> "resolved", v |-> r_sources[i].v]

(***************************************************************************)
(* TopicAnalyzer and AgentFactory.                                         *)
(***************************************************************************)
\* ExpertiseArea, in declaration order
ExpertiseArea ==
    <<"technology", "business", "academic", "creative", "legal", "medical",
      "finance", "environment", "education", "social">>

\* the keys of TopicAnalyzer.expertise_keywords, in insertion order
KeywordAreas ==
    <<"technology", "business", "academic", "creative", "social", "legal",
      "medical", "finance", "environment", "education">>

\* the keys of AgentFactory.agent_templates
agent_templates == {"technology", "business", "academic", "creative", "social"}

Range(s) == {s[i] : i \in 1..Len(s)}
Areas == Range(ExpertiseArea)
Take(s, n) == SubSeq(s, 1, IF n < Len(s) THEN n ELSE Len(s))

\* a topic is taken as its relevance_scores: the number of keywords of each
\* area that occur in it
Topics == [Areas -> 0..MaxScore]

RECURSIVE SortedByScore(_, _)
\* sorted(relevance_scores.items(), key=score, reverse=True), a stable sort,
\* restricted to the areas with score > 0
SortedByScore(topic, k) ==
    IF k = 0 THEN <<>>
    ELSE SelectSeq(KeywordAreas, LAMBDA a : topic[a] = k)
         \o SortedByScore(topic, k - 1)

RECURSIVE PadAreas(_, _)
\* the loop `for area in all_areas` that pads relevant_areas up to 4
PadAreas(relevant, i) ==
    IF i > Len(ExpertiseArea) THEN relevant
    ELSE LET area == ExpertiseArea[i]
             r == IF area \notin Range(relevant)
                  THEN Append(relevant, area) ELSE relevant
         IN  IF Len(r) >= 4 THEN r ELSE PadAreas(r, i + 1)

identify_relevant_expertise(topic) ==
    LET relevant == SortedByScore(topic, MaxScore)
    IN  Take(IF Len(relevant) < 2 THEN PadAreas(relevant, 1) ELSE relevant, 6)

RECURSIVE Backfill(_, _)
\* the loop `while len(selected_agents) < num_agents`
Backfill(selected, n) ==
    IF Len(selected) >= n THEN selected
    ELSE LET remaining ==
                 SelectSeq(ExpertiseArea, LAMBDA a : a \notin Range(selected))
         IN  IF remaining # <<>> /\ remaining[1] \in agent_templates
             THEN Backfill(Append(selected, remaining[1]), n)
             ELSE selected                                        \* break

analyze_topic_and_generate_agents(topic, n) ==
    LET relevant_areas == identify_relevant_expertise(topic)
        first == SelectSeq(Take(relevant_areas, n),
                           LAMBDA a : a \in agent_templates)
    IN  Backfill(first, n)

InitFactory ==
    /\ f_pc = "call"
    /\ f_topic \in Topics
    /\ f_num_agents \in 1..10
    /\ f_selected = <<>>
    /\ OnlyFactory

GenerateAgents ==
    /\ f_pc = "call"
    /\ f_selected' = analyze_topic_and_generate_agents(f_topic, f_num_agents)
    /\ f_pc' = "done"
    /\ UNCHANGED <<f_topic, f_num_agents>>
    /\ UNCHANGED butFactory

NextFactory == GenerateAgents

SpecFactory == InitFactory /\ [][NextFactory]_vars

Min(a, b) == IF a < b THEN a ELSE b

\* C6: for 1 <= N <= 10 the factory returns exactly N profiles when N does
\* not exceed the number of areas that have a template, and exactly that
\* number of profiles otherwise.
C6_ExactCount ==
    f_pc = "done" =>
        Len(f_selected) = Min(f_num_agents, Cardinality(agent_templates))

(***************************************************************************)
(* collaboration_system: conflict level, consensus level, simulated vote.  *)
(* An opinion is [agent_name, opinion_type]; levels and margins are kept   *)
(* in hundredths (0.62 is 62).                                             *)
(***************************************************************************)
OpinionType ==
    <<"strongly_agree", "agree", "neutral", "disagree", "strongly_disagree">>

OpinionTypes == Range(OpinionType)

CountOf(opinions, T) ==
    Cardinality({i \in 1..Len(opinions) : opinions[i].opinion_type \in T})

\* variant: the strong-conflict test asks for more than half strong opinions
analyze_conflict_level_strict(opinions) ==
    LET n == Len(opinions)
        strong_negative == CountOf(opinions, {"strongly_disagree"})
        negative == CountOf(opinions, {"disagree"})
        positive == CountOf(opinions, {"agree"})
        strong_positive == CountOf(opinions, {"strongly_agree"})
        total_strong_opinions == strong_negative + strong_positive
        total_conflicting ==
            strong_negative + negative + positive + strong_positive
    IN  IF n < 2 THEN "harmony"
        ELSE IF /\ 2 * total_strong_opinions > n
                /\ strong_negative > 0 /\ strong_positive > 0
             THEN "strong"
        ELSE IF 10 * total_conflicting >= 6 * n THEN "moderate"
        ELSE IF negative > 0 \/ strong_negative > 0 THEN "mild"
        ELSE "harmony"

\* the value of the ConflictLevel returned; x >= n * 0.5 and x >= n * 0.6 on
\* floats agree with 2x >= n and 10x >= 6n on the integers x, n in range
analyze_conflict_level(opinions) ==
    LET n == Len(opinions)
        strong_negative == CountOf(opinions, {"strongly_disagree"})
        negative == CountOf(opinions, {"disagree"})
        positive == CountOf(opinions, {"agree"})
        strong_positive == CountOf(opinions, {"strongly_agree"})
        total_strong_opinions == strong_negative + strong_positive
        total_conflicting ==
            strong_negative + negative + positive + strong_positive
    IN  IF n < 2 THEN "harmony"
        ELSE IF /\ 2 * total_strong_opinions >= n
                /\ strong_negative > 0 /\ strong_positive > 0
             THEN "strong"
        ELSE IF 10 * total_conflicting >= 6 * n THEN "moderate"
        ELSE IF negative > 0 \/ strong_negative > 0 THEN "mild"
        ELSE "harmony"

\* resolve_conflict: the strategy tag looked up by conflict level
resolve_conflict(opinions) ==
    LET level == analyze_conflict_level(opinions)
    IN  CASE level = "mild" -> "clarification_and_evidence"
          [] level = "moderate" -> "structured_debate"
          [] level = "strong" -> "mediation_and_compromise"
          [] level = "deadlock" -> "alternative_approach"
          [] OTHER -> "consensus_building"

\* round(num / den, 2) in hundredths, rounded half up
RoundHalfUp(num, den) == (200 * num + den) \div (2 * den)

\* round(num / den, 2) in hundredths, for num >= 0 and den > 0.  Python
\* rounds the double num / den to the nearest hundredth, and a double that
\* lies exactly half way (0.125, 0.375, 0.625, 0.875) to the even one; for
\* den < 40 no other quotient lies half way.
Round2(num, den) ==
    LET q == (100 * num) \div den
        r == (100 * num) % den
    IN  IF 2 * r < den THEN q
        ELSE IF 2 * r > den THEN q + 1
        ELSE IF q % 2 = 0 THEN q ELSE q + 1

\* variant: the weighted mean is rounded half up
consensus_level_half_up(opinions) ==
    IF opinions = <<>> THEN 0
    ELSE LET positive_count == CountOf(opinions, {"agree", "strongly_agree"})
             neutral_count == CountOf(opinions, {"neutral"})
         IN  RoundHalfUp(2 * positive_count + neutral_count, 2 * Len(opinions))

\* ConsensusBuilder._calculate_consensus_level
\* (positive * 1.0 + neutral * 0.5 + negative * 0.0) / len, rounded
calculate_consensus_level(opinions) ==
    IF opinions = <<>> THEN 0
    ELSE LET positive_count == CountOf(opinions, {"agree", "strongly_agree"})
             neutral_count == CountOf(opinions, {"neutral"})
         IN  Round2(2 * positive_count + neutral_count, 2 * Len(opinions))

determine_resolution_method(consensus_level) ==
    IF consensus_level >= 80 THEN "strong_consensus"
    ELSE IF consensus_level >= 60 THEN "majority_agreement"
    ELSE IF consensus_level >= 40 THEN "compromise_needed"
    ELSE "fundamental_disagreement"

voting_options == <<"proposal_a", "proposal_b", "rediscuss">>

RECURSIVE Dedup(_)
\* the keys of a dict or Counter filled from s, in insertion order
Dedup(s) ==
    IF s = <<>> THEN <<>>
    ELSE LET init == Dedup(SubSeq(s, 1, Len(s) - 1))
         IN  IF s[Len(s)] \in Range(init) THEN init ELSE Append(init, s[Len(s)])

RECURSIVE MostCommon(_, _)
\* Counter.most_common(): the items sorted by count, largest first, items
\* of equal count staying in insertion order
MostCommon(items, k) ==
    IF k = 0 THEN <<>>
    ELSE SelectSeq(items, LAMBDA it : it[2] = k) \o MostCommon(items, k - 1)

\* variant: the runner-up is not subtracted
calculate_margin_winner_share(sorted_counts, total_votes) ==
    IF Len(sorted_counts) < 2 THEN 100
    ELSE Round2(sorted_counts[1][2], total_votes)

\* VotingSystem._calculate_margin, on vote_counts.most_common()
calculate_margin(sorted_counts, total_votes) ==
    IF Len(sorted_counts) < 2 THEN 100
    ELSE Round2(sorted_counts[1][2] - sorted_counts[2][2], total_votes)

\* VotingSystem.conduct_vote; choice[i] is what random.choice(options)
\* gives for agents[i]
conduct_vote(agents, choice) ==
    LET names == Dedup(agents)
        \* votes[agent] = vote: a later vote of the same name overwrites
        votes == [a \in Range(names) |->
                    choice[CHOOSE i \in 1..Len(agents) :
                             /\ agents[i] = a
                             /\ \A j \in i + 1..Len(agents) : agents[j] # a]]
        values == [i \in 1..Len(names) |-> votes[names[i]]]
        keys == Dedup(values)
        vote_counts ==
            [k \in 1..Len(keys) |->
                <<keys[k], Cardinality({i \in 1..Len(values) : values[i] = keys[k]})>>]
        total_votes == Len(names)
        sorted_counts == MostCommon(vote_counts, total_votes)
    IN  [votes |-> votes,
         results |-> vote_counts,
         winner |-> IF vote_counts = <<>> THEN None ELSE Some(sorted_counts[1][1]),
         total_votes |-> total_votes,
         margin |-> calculate_margin(sorted_counts, total_votes)]

\* CollaborationOrchestrator._determine_next_actions
determine_next_actions(conflict_level, consensus_level, voting_result) ==
    IF consensus_level >= 80 THEN "finalize"
    ELSE IF conflict_level = "strong" THEN "add_experts"
    ELSE IF voting_result # None /\ voting_result[1].margin < 30 THEN "rediscuss"
    ELSE "continue"

\* variant: the vote is run for a strong conflict only
process_agent_interactions_strong_only(opinions, choice) ==
    LET conflict_level == analyze_conflict_level(opinions)
        resolution == resolve_conflict(opinions)
        consensus_level == calculate_consensus_level(opinions)
        agent_names == [i \in 1..Len(opinions) |-> opinions[i].agent_name]
        voting_result ==
            IF conflict_level = "strong"
            THEN Some(conduct_vote(agent_names, choice))
            ELSE None
    IN  [conflict_level |-> conflict_level,
         resolution_strategy |-> resolution,
         consensus_level |-> consensus_level,
         resolution_method |-> determine_resolution_method(consensus_level),
         participating_agents |-> agent_names,
         voting_result |-> voting_result,
         next_actions |->
            determine_next_actions(conflict_level, consensus_level, voting_result)]

\* CollaborationOrchestrator.process_agent_interactions
process_agent_interactions(opinions, choice) ==
    LET conflict_level == analyze_conflict_level(opinions)
        resolution == resolve_conflict(opinions)
        consensus_level == calculate_consensus_level(opinions)
        agent_names == [i \in 1..Len(opinions) |-> opinions[i].agent_name]
        voting_result ==
            IF conflict_level \in {"moderate", "strong"}
            THEN Some(conduct_vote(agent_names, choice))
            ELSE None
    IN  [conflict_level |-> conflict_level,
         resolution_strategy |-> resolution,
         consensus_level |-> consensus_level,
         resolution_method |-> determine_resolution_method(consensus_level),
         participating_agents |-> agent_names,
         voting_result |-> voting_result,
         next_actions |->
            determine_next_actions(conflict_level, consensus_level, voting_result)]

\* the opinions of one round: agent i holds type types[i]
RoundOpinions(types) ==
    [i \in 1..Len(types) |-> [agent_name |-> i, opinion_type |-> types[i]]]

\* what the random choices can be: the vote is not run in harmony or mild
\* rounds, so nothing is drawn there
Choices(opinions) ==
    IF analyze_conflict_level(opinions) \in {"moderate", "strong"}
    THEN [1..Len(opinions) -> Range(voting_options)]
    ELSE {[i \in 1..Len(opinions) |-> voting_options[1]]}

InitAnalysis ==
    /\ a_pc = "call"
    /\ \E types \in SeqsUpTo(OpinionTypes, MaxOpinions) :
          a_opinions = RoundOpinions(types)
    /\ a_analysis = None
    /\ OnlyAnalysis

ProcessAgentInteractions ==
    /\ a_pc = "call"
    /\ \E choice \in Choices(a_opinions) :
          a_analysis' = Some(process_agent_interactions(a_opinions, choice))
    /\ a_pc' = "done"
    /\ UNCHANGED a_opinions
    /\ UNCHANGED butAnalysis

NextAnalysis == ProcessAgentInteractions

SpecAnalysis == InitAnalysis /\ [][NextAnalysis]_vars

NumType(T) ==
    Cardinality({i \in 1..Len(a_opinions) : a_opinions[i].opinion_type \in T})
TypesOf(opinions) == [i \in 1..Len(opinions) |-> opinions[i].opinion_type]

\* C7: analyze_conflict_level follows the cascade: harmony below 2 opinions;
\* strong exactly when the strong opinions are at least half of n and both
\* strongly_agree and strongly_disagree occur; else moderate when the
\* non-neutral opinions are at least 0.6 n; else mild when a disagree or
\* strongly_disagree occurs; else harmony.  [agree, neutral] is harmony and
\* [strongly_agree, strongly_disagree] is strong.
C7_ConflictCascade ==
    a_pc = "done" =>
        LET n == Len(a_opinions)
            level == a_analysis[1].conflict_level
            strong == /\ 2 * NumType({"strongly_agree", "strongly_disagree"}) >= n
                      /\ NumType({"strongly_agree"}) > 0
                      /\ NumType({"strongly_disagree"}) > 0
            moderate == 10 * (n - NumType({"neutral"})) >= 6 * n
            mild == NumType({"disagree", "strongly_disagree"}) > 0
        IN  /\ n < 2 => level = "harmony"
            /\ n >= 2 =>
                 /\ level = "strong" <=> strong
                 /\ level = "moderate" <=> (~strong /\ moderate)
                 /\ level = "mild" <=> (~strong /\ ~moderate /\ mild)
                 /\ level = "harmony" <=> (~strong /\ ~moderate /\ ~mild)
            /\ TypesOf(a_opinions) = <<"agree", "neutral">> => level = "harmony"
            /\ TypesOf(a_opinions) = <<"strongly_agree", "strongly_disagree">>
                 => level = "strong"

C7_Witness ==
    /\ a_pc = "done"
    /\ TypesOf(a_opinions) = <<"strongly_agree", "neutral", "neutral",
                               "strongly_disagree">>
    /\ a_analysis[1].conflict_level = "strong"

RECURSIVE WeightSum2(_)
\* twice the sum of the opinion weights: agree and strongly_agree 1,
\* neutral 0.5, disagree and strongly_disagree 0
WeightSum2(types) ==
    IF types = <<>> THEN 0
    ELSE (CASE Head(types) \in {"agree", "strongly_agree"} -> 2
            [] Head(types) = "neutral" -> 1
            [] OTHER -> 0) + WeightSum2(Tail(types))

Abs(x) == IF x < 0 THEN 0 - x ELSE x

\* level (in hundredths) is a hundredth nearest to num / den
Nearest(level, num, den) == 2 * Abs(100 * num - level * den) <= den

AgreeAgreeNeutralDisagree == <<"agree", "agree", "neutral", "disagree">>

\* C8 as stated: consensus_level is the mean of the opinion weights
\* rounded to 2 decimals, lies in [0, 1], and is 0.63 for
\* [agree, agree, neutral, disagree].
C8_AsClaimed ==
    (a_pc = "done" /\ a_opinions # <<>>) =>
        LET level == a_analysis[1].consensus_level
            types == TypesOf(a_opinions)
        IN  /\ Nearest(level, WeightSum2(types), 2 * Len(types))
            /\ level \in 0..100
            /\ types = AgreeAgreeNeutralDisagree => level = 63

\* C8, amended: consensus_level is the mean of the opinion weights rounded
\* to 2 decimals the way round() does it, a mean exactly half way between
\* two hundredths going to the even one; it lies in [0, 1], and it is 0.62
\* for [agree, agree, neutral, disagree], whose mean is 0.625.
C8_ConsensusLevel ==
    (a_pc = "done" /\ a_opinions # <<>>) =>
        LET level == a_analysis[1].consensus_level
            types == TypesOf(a_opinions)
            num == WeightSum2(types)
            den == 2 * Len(types)
        IN  /\ Nearest(level, num, den)
            /\ 2 * Abs(100 * num - level * den) = den => level % 2 = 0
            /\ level \in 0..100
            /\ types = AgreeAgreeNeutralDisagree => level = 62

C8_Witness ==
    /\ a_pc = "done"
    /\ TypesOf(a_opinions) = AgreeAgreeNeutralDisagree
    /\ a_analysis[1].consensus_level = 62

SetMax(S) == CHOOSE x \in S : \A y \in S : y <= x

\* C9: the margin of a vote is (count of the winner - count of the
\* runner-up) / total votes rounded to 2 decimals, the winner being an
\* option with the highest count; it is 1.0 when fewer than 2 options got
\* votes, and always within [0, 1].
C9_Margin ==
    (a_pc = "done" /\ a_analysis[1].voting_result # None) =>
        LET v == a_analysis[1].voting_result[1]
            voters == DOMAIN v.votes
            cnt(o) == Cardinality({a \in voters : v.votes[a] = o})
            voted == {o \in Range(voting_options) : cnt(o) > 0}
            total == Cardinality(voters)
            winner == v.winner[1]
        IN  /\ winner \in voted
            /\ \A o \in voted : cnt(o) <= cnt(winner)
            /\ v.margin \in 0..100
            /\ IF Cardinality(voted) < 2
               THEN v.margin = 100
               ELSE LET runner_up == SetMax({cnt(o) : o \in voted \ {winner}})
                    IN  Nearest(v.margin, cnt(winner) - runner_up, total)

C9_Witness ==
    /\ a_pc = "done"
    /\ a_analysis[1].voting_result # None
    /\ Len(a_analysis[1].voting_result[1].results) = 3
    /\ a_analysis[1].voting_result[1].margin = 25

(***************************************************************************)
(* main_intelligent_collaboration: run_intelligent_discussion.             *)
(***************************************************************************)
\* a reply is taken as which phrase lists of the classifier it contains:
\*   sa  "強く賛成", "完全に同意", "絶対に"
\*   ag  "賛成", "同意", "良い", "正しい"
\*   dis "反対", "異議", "問題", "懸念"
\*   sd  "強く反対", "完全に反対", "絶対に反対" (each contains "反対")
Replies ==
    {r \in [sa : BOOLEAN, ag : BOOLEAN, dis : BOOLEAN, sd : BOOLEAN] :
        r.sd => r.dis}

\* variant: the strong-disagreement phrases are tested before the plain ones
extract_opinion_strong_first(r) ==
    IF r.sa THEN "strongly_agree"
    ELSE IF r.ag THEN "agree"
    ELSE IF r.sd THEN "strongly_disagree"
    ELSE IF r.dis THEN "disagree"
    ELSE "neutral"

\* the opinion type _extract_opinion_from_response gives a reply
extract_opinion_from_response(r) ==
    IF r.sa THEN "strongly_agree"
    ELSE IF r.ag THEN "agree"
    ELSE IF r.dis THEN "disagree"
    ELSE IF r.sd THEN "strongly_disagree"
    ELSE "neutral"

\* variant: only a high consensus ends the discussion
should_end_on_consensus_only(analysis) ==
    analysis.consensus_level >= 80

should_end_discussion(analysis) ==
    IF analysis.consensus_level >= 80 THEN TRUE
    ELSE IF analysis.conflict_level = "harmony" THEN TRUE
    ELSE FALSE

\* _generate_recommendation: the branch taken
generate_recommendation(analysis) ==
    IF analysis.consensus_level >= 80 THEN "execution_plan"
    ELSE IF analysis.conflict_level = "strong_conflict" THEN "outside_experts"
    ELSE IF analysis.conflict_level = "moderate_conflict" THEN "narrow_points"
    ELSE "proceed_incrementally"

NoKeywords == [a \in Areas |-> 0]

\* topics: a blank one (no term at all) and one with terms; neither holds
\* a keyword of an area
DiscussionTopics ==
    {[terms |-> FALSE, scores |-> NoKeywords],
     [terms |-> TRUE, scores |-> NoKeywords]}

RECURSIVE Flatten(_)
Flatten(ss) == IF ss = <<>> THEN <<>> ELSE Head(ss) \o Flatten(Tail(ss))

\* The ballots of conduct_vote reach the voting result and the next actions
\* only; a round keeps whether a vote was held and the conclusion keeps the
\* levels, the strategy and the recommendation, and no ballot changes any of
\* these. The discussion therefore carries one draw; SpecAnalysis draws
\* every ballot.
OneDraw(opinions) == [i \in 1..Len(opinions) |-> voting_options[1]]

\* what a round was after, by the number the goal line reads
RoundGoal(n) ==
    IF n = 1 THEN "initial_opinions"
    ELSE IF n = 2 THEN "differing_viewpoints"
    ELSE "consensus_or_final_positions"

\* _prepare_discussion_context: the rounds it summarizes and its goal line.
\* The loop over previous_rounds[-2:] assigns round_num, so the goal line
\* reads the number of the last round summarized when there is one.
prepare_discussion_context(round_num, previous_rounds) ==
    LET shown == Min(2, Len(previous_rounds))
        summarized == [i \in 1..shown |->
            previous_rounds[Len(previous_rounds) - shown + i].round_number]
        n == IF shown = 0 THEN round_num ELSE summarized[shown]
    IN  [summarized |-> summarized, goal_round |-> n, goal |-> RoundGoal(n)]

NoWords == [sa |-> FALSE, ag |-> FALSE, dis |-> FALSE, sd |-> FALSE]

\* _generate_agent_response: the reply of the chat completion, or, when the
\* call raised, the text "[name] エラーが発生しました: ..." returned in its
\* place; neither that text nor an agent name holds a keyword
generate_agent_response(ok, reply) ==
    IF ok THEN [content |-> "reply", words |-> reply]
    ELSE [content |-> "error_text", words |-> NoWords]

InitDiscussion ==
    /\ d_pc = "phase1"
    /\ d_topic \in DiscussionTopics
    /\ d_num_agents \in 1..MaxAgents
    /\ d_max_rounds \in 0..MaxRounds
    /\ d_agents = <<>>
    /\ d_round_num = 0
    /\ d_results = <<>>
    /\ d_opinions = <<>>
    /\ d_context = None
    /\ d_conclusion = None
    /\ OnlyDiscussion

\* Phase 1: _generate_specialized_agents
GenerateSpecializedAgents ==
    /\ d_pc = "phase1"
    /\ d_agents' = analyze_topic_and_generate_agents(d_topic.scores, d_num_agents)
    /\ d_pc' = "phase2"
    /\ UNCHANGED <<d_topic, d_num_agents, d_max_rounds, d_round_num, d_results,
                   d_opinions, d_context, d_conclusion>>
    /\ UNCHANGED butDiscussion

\* Phase 2: _gather_background_information; _calculate_relevance divides by
\* the number of terms of the query
GatherBackgroundInformation ==
    /\ d_pc = "phase2"
    /\ d_pc' = IF ~d_topic.terms THEN "error"
               ELSE IF d_max_rounds >= 1 THEN "round" ELSE "phase4"
    /\ UNCHANGED <<d_topic, d_num_agents, d_max_rounds, d_agents, d_round_num,
                   d_results, d_opinions, d_context, d_conclusion>>
    /\ UNCHANGED butDiscussion

\* Phase 3: the head of `for round_num in range(1, max_rounds + 1)` and the
\* start of _execute_discussion_round
StartRound ==
    /\ d_pc = "round"
    /\ d_round_num' = d_round_num + 1
    /\ d_opinions' = <<>>
    /\ d_context' = Some(prepare_discussion_context(d_round_num + 1, d_results))
    /\ d_pc' = "speaking"
    /\ UNCHANGED <<d_topic, d_num_agents, d_max_rounds, d_agents, d_results,
                   d_conclusion>>
    /\ UNCHANGED butDiscussion

\* one agent's turn: _generate_agent_response, then
\* _extract_opinion_from_response
AgentSpeaks ==
    /\ d_pc = "speaking"
    /\ Len(d_opinions) < Len(d_agents)
    /\ \E reply \in Replies, ok \in BOOLEAN :
          LET response == generate_agent_response(ok, reply) IN
          d_opinions' = Append(d_opinions,
              [agent_name |-> Len(d_opinions) + 1,
               content |-> response.content,
               opinion_type |-> extract_opinion_from_response(response.words)])
    /\ UNCHANGED <<d_pc, d_topic, d_num_agents, d_max_rounds, d_agents,
                   d_round_num, d_results, d_context, d_conclusion>>
    /\ UNCHANGED butDiscussion

\* the rest of the loop body: _analyze_collaboration, the round is appended
\* to discussion_results, _should_end_discussion decides on the break
AnalyzeRound ==
    /\ d_pc = "speaking"
    /\ Len(d_opinions) = Len(d_agents)
    /\ \E analysis \in {process_agent_interactions(d_opinions,
                                                    OneDraw(d_opinions))} :
        /\ d_results' = Append(d_results,
              [round_number |-> d_round_num,
               opinions |-> d_opinions,
               conflict_level |-> analysis.conflict_level,
               consensus_level |-> analysis.consensus_level,
               voted |-> analysis.voting_result # None])
        /\ d_pc' = IF should_end_discussion(analysis) THEN "phase4"
                   ELSE IF d_round_num < d_max_rounds THEN "round"
                   ELSE "phase4"
    /\ UNCHANGED <<d_topic, d_num_agents, d_max_rounds, d_agents, d_round_num,
                   d_opinions, d_context, d_conclusion>>
    /\ UNCHANGED butDiscussion

AllOpinions == Flatten([i \in 1..Len(d_results) |-> d_results[i].opinions])

\* Phase 4: _generate_final_conclusion over the opinions of every round
GenerateFinalConclusion ==
    /\ d_pc = "phase4"
    /\ \E final \in {process_agent_interactions(AllOpinions,
                                                 OneDraw(AllOpinions))} :
        d_conclusion' = Some([rounds |-> Len(d_results),
                              consensus_level |-> final.consensus_level,
                              conflict_level |-> final.conflict_level,
                              resolution_strategy |-> final.resolution_strategy,
                              recommendation |-> generate_recommendation(final)])
    /\ d_pc' = "result"
    /\ UNCHANGED <<d_topic, d_num_agents, d_max_rounds, d_agents, d_round_num,
                   d_results, d_opinions, d_context>>
    /\ UNCHANGED butDiscussion

\* the session result: _calculate_overall_metrics divides by the number of
\* opinions; then _save_session_log
BuildSessionResult ==
    /\ d_pc = "result"
    /\ d_pc' = IF AllOpinions = <<>> THEN "error" ELSE "done"
    /\ UNCHANGED <<d_topic, d_num_agents, d_max_rounds, d_agents, d_round_num,
                   d_results, d_opinions, d_context, d_conclusion>>
    /\ UNCHANGED butDiscussion

NextDiscussion ==
    \/ GenerateSpecializedAgents
    \/ GatherBackgroundInformation
    \/ StartRound
    \/ AgentSpeaks
    \/ AnalyzeRound
    \/ GenerateFinalConclusion
    \/ BuildSessionResult

SpecDiscussion == InitDiscussion /\ [][NextDiscussion]_vars

RoundEnds(r) == r.consensus_level >= 80 \/ r.conflict_level = "harmony"

\* C10: the rounds executed are numbered 1, 2, ... consecutively and are
\* never more than max_rounds; the discussion stops right after the first
\* round whose analysis has consensus_level >= 0.8 or conflict level
\* harmony, so no round follows such a round; and the final conclusion
\* follows the last executed round.
C10_RoundLoop ==
    LET n == Len(d_results)
        over == n >= d_max_rounds \/ (n > 0 /\ RoundEnds(d_results[n]))
    IN  /\ n <= d_max_rounds
        /\ \A i \in 1..n : d_results[i].round_number = i
        /\ \A i \in 1..n - 1 : ~RoundEnds(d_results[i])
        /\ d_pc \in {"round", "speaking"} => (~over /\ d_conclusion = None)
        /\ d_pc \in {"phase4", "result", "done"} => over
        /\ d_conclusion # None => (over /\ d_conclusion[1].rounds = n)

C10_Witness ==
    /\ d_pc = "done"
    /\ Len(d_results) = 1
    /\ d_max_rounds > 1
    /\ d_results[1].conflict_level = "harmony"
    /\ d_results[1].consensus_level < 80

\* C11: the recommendation of the final conclusion is the execution plan
\* text when consensus_level >= 0.8, otherwise the outside experts text when
\* the conflict level is strong, otherwise the narrow the points text when
\* it is moderate, otherwise the proceed incrementally text; so a moderate
\* or strong conflict with consensus below 0.8 never gets the default text.
C11_Recommendation ==
    d_conclusion # None =>
        LET c == d_conclusion[1]
        IN  c.recommendation =
              IF c.consensus_level >= 80 THEN "execution_plan"
              ELSE IF c.conflict_level = "strong" THEN "outside_experts"
              ELSE IF c.conflict_level = "moderate" THEN "narrow_points"
              ELSE "proceed_incrementally"

\* C12: the goal line of the context prepared for round r is the goal of
\* round r (initial opinions for 1, differing viewpoints for 2, consensus
\* or final positions from 3 on), whatever rounds the context summarizes.
C12_RoundGoal ==
    d_pc = "speaking" => d_context[1].goal = RoundGoal(d_round_num)

\* C13: a chat completion that raised leaves no opinion behind: no opinion
\* of the round in progress or of a recorded round holds the text returned
\* for a failed call.
C13_FailureSurfaces ==
    /\ \A i \in 1..Len(d_opinions) : d_opinions[i].content # "error_text"
    /\ \A k \in 1..Len(d_results) :
          \A i \in 1..Len(d_results[k].opinions) :
              d_results[k].opinions[i].content # "error_text"

(***************************************************************************)
(* The local group chat: main_local.create_sequential_chat and             *)
(* run_conversation.  The manager's loop is the library's: each round it   *)
(* appends the last message, stops at the round cap, asks the selector for *)
(* the next speaker, stops when there is none, and asks that speaker for a *)
(* reply.                                                                  *)
(***************************************************************************)
\* the agents by role: storyteller is the agent named 語り手, verifier 相槌役,
\* judge 判定役, user the proxy ユーザー that starts the chat
ChatAgents == {"storyteller", "verifier", "judge"}
Speakers == ChatAgents \cup {"user"}

\* variant: the judge hands the floor back to the storyteller
speaker_selector_loops(last_name, num_messages) ==
    IF num_messages <= 1 THEN Some("storyteller")
    ELSE IF last_name = "storyteller" THEN Some("verifier")
    ELSE IF last_name = "verifier" THEN Some("judge")
    ELSE Some("storyteller")

\* speaker_selector(last_speaker, group_chat); None is `return None`
speaker_selector(last_name, num_messages) ==
    IF num_messages <= 1 THEN Some("storyteller")
    ELSE IF last_name = "storyteller" THEN Some("verifier")
    ELSE IF last_name = "verifier" THEN Some("judge")
    ELSE IF last_name = "judge" THEN None
    ELSE Some("storyteller")

\* user_proxy.initiate_chat(manager, message=user_input): the first round
\* has appended the user's message
InitChat ==
    /\ g_pc = "chat"
    /\ g_max_round \in 1..MaxRound
    /\ g_messages = <<[name |-> "user", ends |-> FALSE]>>
    /\ g_last = "user"
    /\ g_round = 1
    /\ OnlyChat

\* the rest of a round and the head of the next: the cap, the selection,
\* the reply of the selected agent (a reply, no reply, or an exception)
ChatRound ==
    /\ g_pc = "chat"
    /\ IF g_round = g_max_round
       THEN g_pc' = "ended" /\ UNCHANGED <<g_messages, g_last, g_round>>
       ELSE LET next == speaker_selector(g_last, Len(g_messages)) IN
            IF next = None
            THEN g_pc' = "ended" /\ UNCHANGED <<g_messages, g_last, g_round>>
            ELSE \E outcome \in {"reply", "none", "raise"}, ends \in BOOLEAN :
                   IF outcome = "reply"
                   THEN /\ g_messages' = Append(g_messages,
                                             [name |-> next[1], ends |-> ends])
                        /\ g_last' = next[1]
                        /\ g_round' = g_round + 1
                        /\ g_pc' = "chat"
                   ELSE /\ g_pc' = IF outcome = "none" THEN "ended" ELSE "failed"
                        /\ UNCHANGED <<g_messages, g_last, g_round>>
    /\ UNCHANGED g_max_round
    /\ UNCHANGED butChat

\* save_conversation_log(messages, session_id), also after a failed chat
SaveConversationLog ==
    /\ g_pc \in {"ended", "failed"}
    /\ g_pc' = "saved"
    /\ UNCHANGED <<g_max_round, g_messages, g_last, g_round>>
    /\ UNCHANGED butChat

NextChat == ChatRound \/ SaveConversationLog

SpecChat == InitChat /\ [][NextChat]_vars

\* C14: the selector gives the storyteller while there is at most one
\* message, then the verifier after the storyteller, the judge after the
\* verifier, nobody after the judge and the storyteller after anyone else;
\* in the chat the agents speak in that order, nobody speaks twice in a
\* row, and no chat runs more than 6 rounds.
C14_SpeakerOrder ==
    /\ \A last \in Speakers \cup {"nobody"}, n \in 0..MaxRound :
          speaker_selector(last, n) =
              IF n <= 1 THEN Some("storyteller")
              ELSE CASE last = "storyteller" -> Some("verifier")
                     [] last = "verifier" -> Some("judge")
                     [] last = "judge" -> None
                     [] OTHER -> Some("storyteller")
    /\ g_pc # "off" =>
          /\ \A i \in 1..Len(g_messages) :
                g_messages[i].name = <<"user", "storyteller", "verifier", "judge">>[i]
          /\ \A i \in 1..Len(g_messages) - 1 :
                g_messages[i].name # g_messages[i + 1].name
          /\ Len(g_messages) = g_round
          /\ g_round <= g_max_round /\ g_round <= 6

C14_Witness ==
    /\ g_pc = "saved"
    /\ g_max_round = 6
    /\ Len(g_messages) = 4
    /\ g_messages[4].name = "judge"

(***************************************************************************)
(* The extended variant: main_extended.run_extended_conversation.          *)
(* Inputs are numbered: 0 is the initial topic, 1..MaxInputs what the      *)
(* operator types after a round.                                           *)
(***************************************************************************)
ExtAgents == <<"storyteller", "verifier", "judge">>

\* the judge's reply: whether it holds "次のラウンドに進みます" (proceed) and
\* "議論を終了します" (end); the text call_openai_api returns for a failed
\* call holds neither
JudgeReplies == [proceed : BOOLEAN, end : BOOLEAN]

\* continue_conversation after the judge's turn
judge_continues(reply) ==
    IF reply.proceed THEN TRUE
    ELSE IF reply.end THEN FALSE
    ELSE FALSE

\* the argument of run_conversation_round
round_input(round_num, current_input) ==
    IF round_num = 0 THEN current_input ELSE None

\* ConversationManager.get_context_summary: the messages of the history
\* whose round is at least max(0, round_count - max_rounds), in order (the
\* empty history gives the empty summary)
get_context_summary(history, round_count, max_rounds) ==
    LET from == IF round_count - max_rounds > 0
                  THEN round_count - max_rounds ELSE 0
    IN  SelectSeq(history, LAMBDA msg : msg.round >= from)

InitExtended ==
    /\ e_pc = "round"
    /\ e_round_num = 0
    /\ e_round_count = 0
    /\ e_current_input = Some(0)
    /\ e_history = <<>>
    /\ e_rounds = <<>>
    /\ e_choices = <<>>
    /\ OnlyExtended

\* run_conversation_round and the test of its result
RunConversationRound ==
    /\ e_pc = "round"
    /\ \E reply \in JudgeReplies :
        LET user_input == round_input(e_round_num, e_current_input)
            n == e_round_count + 1
            should_continue == judge_continues(reply)
        IN  /\ e_round_count' = n
            /\ e_history' = e_history \o
                  [i \in 1..Len(ExtAgents) |-> [round |-> n, agent |-> ExtAgents[i]]]
            /\ e_rounds' = Append(e_rounds,
                  [user_input |-> user_input, judge |-> reply,
                   context |-> get_context_summary(e_history, n, 3)])
            /\ IF ~should_continue THEN e_pc' = "ending" /\ UNCHANGED e_round_num
               ELSE IF e_round_num < ExtMaxRounds - 1
               THEN e_pc' = "prompt" /\ UNCHANGED e_round_num
               ELSE e_pc' = "ending" /\ UNCHANGED e_round_num
    /\ UNCHANGED <<e_current_input, e_choices>>
    /\ UNCHANGED butExtended

\* the prompt after a round that is not the last: "q" quits, an empty line
\* continues, anything else is a new input; Ctrl-C interrupts
OperatorAnswers ==
    /\ e_pc = "prompt"
    /\ \E answer \in {[kind |-> k, v |-> 0] : k \in {"q", "enter", "interrupt"}}
                    \cup {[kind |-> "input", v |-> v] : v \in 1..MaxInputs} :
        /\ e_choices' = Append(e_choices, answer)
        /\ IF answer.kind \in {"q", "interrupt"}
           THEN e_pc' = "ending" /\ UNCHANGED <<e_round_num, e_current_input>>
           ELSE /\ e_pc' = "round"
                /\ e_round_num' = e_round_num + 1
                /\ e_current_input' =
                      IF answer.kind = "input" THEN Some(answer.v) ELSE None
    /\ UNCHANGED <<e_round_count, e_history, e_rounds>>
    /\ UNCHANGED butExtended

\* conversation_manager.save_log()
SaveLog ==
    /\ e_pc = "ending"
    /\ e_pc' = "saved"
    /\ UNCHANGED <<e_round_num, e_round_count, e_current_input, e_history,
                   e_rounds, e_choices>>
    /\ UNCHANGED butExtended

NextExtended == RunConversationRound \/ OperatorAnswers \/ SaveLog

SpecExtended == InitExtended /\ [][NextExtended]_vars

\* C15: at most 5 rounds are run; a round follows round k only if the
\* judge's reply in round k holds the proceed phrase and the operator did
\* not quit; and no round follows a round whose judge reply holds the end
\* phrase.
C15_Continuation ==
    /\ Len(e_rounds) <= 5
    /\ \A k \in 1..Len(e_rounds) - 1 :
          /\ e_rounds[k].judge.proceed
          /\ e_choices[k].kind # "q"
    /\ \A k \in 1..Len(e_rounds) :
          e_rounds[k].judge.end => Len(e_rounds) = k

\* C16: a new input the operator gives after round k is the user input of
\* round k + 1 and is in the conversation history ahead of what the agents
\* say in round k + 1.
C16_OperatorInput ==
    \A k \in 1..Len(e_choices) :
        (e_choices[k].kind = "input" /\ Len(e_rounds) > k) =>
            /\ e_rounds[k + 1].user_input = Some(e_choices[k].v)
            /\ \E i \in 1..Len(e_history) :
                  /\ e_history[i] = [round |-> k + 1, agent |-> "user"]
                  /\ \A j \in 1..i - 1 : e_history[j].round <= k

(***************************************************************************)
(* local_llm.get_llm_provider and local_llm_wrapper.  A model is known by  *)
(* the number of its path; LocalLLMProvider(...) loads it or raises.       *)
(***************************************************************************)
\* variant: a configuration naming another path gets a provider of its own
get_llm_provider_by_path(held, path, loads) ==
    IF held = None \/ held # Some(path)
    THEN IF loads
         THEN [provider |-> Some(path), constructs |-> TRUE,
               result |-> Returned(path)]
         ELSE [provider |-> held, constructs |-> TRUE, result |-> Raised]
    ELSE [provider |-> held, constructs |-> FALSE,
          result |-> Returned(held[1])]

\* get_llm_provider(config): the new value of _llm_provider, whether the
\* constructor ran, and what the call gave
get_llm_provider(held, path, loads) ==
    IF held = None
    THEN IF loads
         THEN [provider |-> Some(path), constructs |-> TRUE,
               result |-> Returned(path)]
         ELSE [provider |-> held, constructs |-> TRUE, result |-> Raised]
    ELSE [provider |-> held, constructs |-> FALSE,
          result |-> Returned(held[1])]

InitLlm ==
    /\ l_provider = None
    /\ l_loaded = <<>>
    /\ l_calls = <<>>
    /\ OnlyLlm

\* a call of get_llm_provider(config), made directly or by
\* local_llm_wrapper(config), which binds the provider it gets
ProviderCall(fn) ==
    /\ Len(l_calls) < MaxCalls
    /\ \E path \in 1..MaxPaths, loads \in BOOLEAN :
        \E r \in {get_llm_provider(l_provider, path, loads)} :
          /\ l_provider' = r.provider
          /\ l_loaded' = IF r.constructs /\ ~r.result.raised
                         THEN Append(l_loaded, path) ELSE l_loaded
          /\ l_calls' = Append(l_calls,
                [fn |-> fn, path |-> path, constructs |-> r.constructs,
                 result |-> r.result])
    /\ UNCHANGED butLlm

GetLlmProvider == ProviderCall("get_llm_provider")

LocalLlmWrapper == ProviderCall("local_llm_wrapper")

NextLlm == GetLlmProvider \/ LocalLlmWrapper

SpecLlm == InitLlm /\ [][NextLlm]_vars

\* C17: at most one model is ever loaded; the constructor runs only while
\* no provider is held, so once a call has returned no later call
\* constructs; and every call that returns gives the provider loaded
\* first, also when its configuration names another path.
C17_Singleton ==
    /\ Len(l_loaded) <= 1
    /\ \A i \in 1..Len(l_calls) :
          /\ l_calls[i].constructs =>
                \A j \in 1..i - 1 : l_calls[j].result.raised
          /\ ~l_calls[i].result.raised =>
                /\ l_loaded # <<>>
                /\ l_calls[i].result.value = l_loaded[1]
    /\ (l_calls # <<>> /\ ~l_calls[1].result.raised) =>
          \A i \in 2..Len(l_calls) : ~l_calls[i].constructs

C17_Witness ==
    /\ Len(l_calls) = 3
    /\ \A i \in 1..3 : ~l_calls[i].result.raised
    /\ l_calls[1].constructs /\ l_calls[1].path = 1
    /\ l_calls[2].path = 2 /\ l_calls[2].result.value = 1
    /\ l_calls[3].fn = "local_llm_wrapper" /\ l_calls[3].path = 2
    /\ l_calls[3].result.value = 1

(***************************************************************************)
(* Session logs of the intelligent collaboration system: the session id is *)
(* taken from the clock when a system is created, the log file is named    *)
(* after it and opened for writing when a run ends.                        *)
(***************************************************************************)
\* datetime.now().strftime("%Y%m%d_%H%M%S"): the second, nothing finer
session_id(clock) == clock

\* "intelligent_session_<session_id>.json"
log_file(id) == id

InitSessions ==
    /\ s_clock = 0
    /\ s_systems = <<>>
    /\ s_runs = <<>>
    /\ s_files = {}
    /\ OnlySessions

\* a second passes
Tick ==
    /\ s_clock < MaxClock
    /\ s_clock' = s_clock + 1
    /\ UNCHANGED <<s_systems, s_runs, s_files>>
    /\ UNCHANGED butSessions

\* IntelligentCollaborationSystem()
NewSystem ==
    /\ Len(s_systems) < MaxSystems
    /\ s_systems' = Append(s_systems, session_id(s_clock))
    /\ UNCHANGED <<s_clock, s_runs, s_files>>
    /\ UNCHANGED butSessions

\* a run of run_intelligent_discussion on system i reaches
\* _save_session_log: open(log_file, "w") replaces what the file held
SaveSessionLog ==
    /\ Len(s_runs) < MaxRuns
    /\ \E i \in 1..Len(s_systems) :
        LET run == Len(s_runs) + 1
            file == log_file(s_systems[i])
        IN  /\ s_runs' = Append(s_runs, [system |-> i, file |-> file])
            /\ s_files' = {f \in s_files : f.name # file}
                              \cup {[name |-> file, run |-> run]}
    /\ UNCHANGED <<s_clock, s_systems>>
    /\ UNCHANGED butSessions

NextSessions == Tick \/ NewSystem \/ SaveSessionLog

SpecSessions == InitSessions /\ [][NextSessions]_vars

\* C18: the session file a run wrote stays that run's: no later run, on
\* the same system or on another, writes the same file.
C18_Ownership ==
    \A n \in 1..Len(s_runs) :
        [name |-> s_runs[n].file, run |-> n] \in s_files

(***************************************************************************)
(* The dashboard: one run of streamlit_app.main.  Modes: "new" starts a    *)
(* new discussion, "analysis" analyses a past one, "list" lists sessions.  *)
(***************************************************************************)
Modes == {"new", "analysis", "list"}

\* check_environment: the messages it renders and what it returns
check_environment(key) ==
    IF ~key THEN [page |-> <<"api_key_error">>, ok |-> FALSE]
    ELSE [page |-> <<>>, ok |-> TRUE]

\* the body of main below the two checks
render_mode(mode, sessions, submitted, topic, key) ==
    CASE mode = "new" ->
            IF submitted /\ topic
            THEN [page |-> <<"form">> \o check_environment(key).page,
                  live |-> check_environment(key).ok]
            ELSE IF submitted
            THEN [page |-> <<"form", "topic_warning">>, live |-> FALSE]
            ELSE [page |-> <<"form">>, live |-> FALSE]
      [] mode = "analysis" ->
            IF sessions = 0
            THEN [page |-> <<"no_sessions">>, live |-> FALSE]
            ELSE [page |-> <<"session_selector">>, live |-> FALSE]
      [] OTHER ->
            IF sessions = 0
            THEN [page |-> <<"no_sessions">>, live |-> FALSE]
            ELSE [page |-> <<"session_list">>, live |-> FALSE]

InitDashboard ==
    /\ u_pc = "run"
    /\ u_mode \in Modes
    /\ u_modules \in BOOLEAN
    /\ u_api_key \in BOOLEAN
    /\ u_sessions \in 0..MaxSessions
    /\ u_submitted \in BOOLEAN
    /\ u_topic \in BOOLEAN
    /\ u_page = <<>>
    /\ u_live_run = FALSE
    /\ OnlyDashboard

\* main(): header and sidebar, the module check, the environment check,
\* then the mode; st.stop() ends the run
RunScript ==
    /\ u_pc = "run"
    /\ u_pc' = "rendered"
    /\ IF ~u_modules
       THEN /\ u_page' = <<"header", "module_error">>
            /\ UNCHANGED u_live_run
       ELSE IF ~check_environment(u_api_key).ok
       THEN /\ u_page' = <<"header">> \o check_environment(u_api_key).page
            /\ UNCHANGED u_live_run
       ELSE \E r \in {render_mode(u_mode, u_sessions, u_submitted, u_topic,
                                   u_api_key)} :
            /\ u_page' = <<"header">> \o r.page
            /\ u_live_run' = r.live
    /\ UNCHANGED <<u_mode, u_modules, u_api_key, u_sessions, u_submitted,
                   u_topic>>
    /\ UNCHANGED butDashboard

NextDashboard == RunScript

SpecDashboard == InitDashboard /\ [][NextDashboard]_vars

\* C19: without the API key no live run is started, and that is all the
\* missing key blocks: with the modules loaded, the analysis mode still
\* shows the selector of the existing sessions and the list mode still
\* lists them.
C19_BrowseWithoutKey ==
    (u_pc = "rendered" /\ ~u_api_key) =>
        /\ ~u_live_run
        /\ (u_modules /\ u_sessions > 0 /\ u_mode = "analysis") =>
              \E i \in 1..Len(u_page) : u_page[i] = "session_selector"
        /\ (u_modules /\ u_sessions > 0 /\ u_mode = "list") =>
              \E i \in 1..Len(u_page) : u_page[i] = "session_list"

(***************************************************************************)
(* check_lmstudio.check_lmstudio_connection: the model-list probe, then    *)
(* the chat smoke request.                                                 *)
(***************************************************************************)
\* what a request does: it answers with a status (and, for 200, a body that
\* parses or does not), or it raises
ProbeOutcomes ==
    {[kind |-> "status", status |-> 200, parses |-> TRUE, n |-> n] :
        n \in 0..MaxModels}
    \cup {[kind |-> "status", status |-> 200, parses |-> FALSE, n |-> 0]}
    \cup {[kind |-> "status", status |-> s, parses |-> TRUE, n |-> 0] :
            s \in {404, 500}}
    \cup {[kind |-> k, status |-> 0, parses |-> FALSE, n |-> 0] :
            k \in {"connection_error", "exception"}}

\* for the chat request n is the number of choices in the body
ChatOutcomes ==
    {[kind |-> "status", status |-> 200, parses |-> TRUE, n |-> n] :
        n \in 0..1}
    \cup {[kind |-> "status", status |-> 200, parses |-> FALSE, n |-> 0]}
    \cup {[kind |-> "status", status |-> s, parses |-> TRUE, n |-> 0] :
            s \in {400, 500}}
    \cup {[kind |-> "exception", status |-> 0, parses |-> FALSE, n |-> 0]}

InitConnection ==
    /\ c_pc = "probe"
    /\ c_probe \in ProbeOutcomes
    /\ c_chat \in ChatOutcomes
    /\ c_printed = <<>>
    /\ c_result = None
    /\ OnlyConnection

\* step 1, the try block around requests.get(base_url/models)
probe_step(o) ==
    IF o.kind = "connection_error"
    THEN [printed |-> <<"cannot_connect">>, returns |-> Some(FALSE)]
    ELSE IF o.kind = "exception"
    THEN [printed |-> <<"error">>, returns |-> Some(FALSE)]
    ELSE IF o.status = 200
    THEN IF ~o.parses
         THEN [printed |-> <<"server_up", "error">>, returns |-> Some(FALSE)]
         ELSE IF o.n > 0
         THEN [printed |-> <<"server_up", "models">>, returns |-> None]
         ELSE [printed |-> <<"server_up", "no_model_loaded">>, returns |-> None]
    ELSE [printed |-> <<"server_error">>, returns |-> None]

\* step 2, the try block around requests.post(base_url/chat/completions);
\* result.get("choices", [{}])[0] raises on an empty list of choices
chat_step(o) ==
    IF o.kind = "exception"
    THEN [printed |-> <<"chat_test_error">>, returns |-> Some(FALSE)]
    ELSE IF o.status = 200
    THEN IF ~o.parses \/ o.n = 0
         THEN [printed |-> <<"chat_ok", "chat_test_error">>,
               returns |-> Some(FALSE)]
         ELSE [printed |-> <<"chat_ok", "reply">>, returns |-> Some(TRUE)]
    ELSE [printed |-> <<"chat_error">>, returns |-> Some(FALSE)]

ProbeModels ==
    /\ c_pc = "probe"
    /\ \E r \in {probe_step(c_probe)} :
        /\ c_printed' = c_printed \o r.printed
        /\ c_result' = r.returns
        /\ c_pc' = IF r.returns = None THEN "chat" ELSE "done"
    /\ UNCHANGED <<c_probe, c_chat>>
    /\ UNCHANGED butConnection

ChatSmokeTest ==
    /\ c_pc = "chat"
    /\ \E r \in {chat_step(c_chat)} :
        /\ c_printed' = c_printed \o r.printed
        /\ c_result' = r.returns
    /\ c_pc' = "done"
    /\ UNCHANGED <<c_probe, c_chat>>
    /\ UNCHANGED butConnection

NextConnection == ProbeModels \/ ChatSmokeTest

SpecConnection == InitConnection /\ [][NextConnection]_vars

ProbeSucceeded == c_probe.kind = "status" /\ c_probe.status = 200 /\ c_probe.parses
ChatSucceeded ==
    c_chat.kind = "status" /\ c_chat.status = 200 /\ c_chat.parses /\ c_chat.n > 0

\* C20: the check returns True exactly when the model-list probe and the
\* chat request both succeeded; a probe answered with another status than
\* 200 makes the result False also when the chat request succeeds.
C20_BothChecks ==
    c_pc = "done" =>
        /\ c_result # None
        /\ c_result[1] <=> (ProbeSucceeded /\ ChatSucceeded)

(***************************************************************************)
(* SpecCli: the interactive command-line entry points and what each does   *)
(* with a KeyboardInterrupt.                                               *)
(*   "extended"     main_extended.run_extended_conversation                *)
(*   "intelligent"  main_intelligent_collaboration.main                    *)
(*   "local_fixed"  main_local_fixed.main                                  *)
(* Every agent call is wrapped in "except Exception", which does not catch *)
(* KeyboardInterrupt (a BaseException), so the interrupt travels up to the *)
(* entry point.                                                            *)
(***************************************************************************)
Entries == {"extended", "intelligent", "local_fixed"}

\* what an agent call puts into the log: a reply, or the text made from a
\* failed call
CallTexts == {"reply", "error_text"}

\* the entry points with an "except KeyboardInterrupt" around the run:
\* main_extended.py line 313; main_intelligent_collaboration.main has only
\* "except Exception" (line 530) and main_local_fixed.main has no handler
catches_keyboard_interrupt(entry) == entry = "extended"

\* the entry points that ask the operator between two rounds
prompts_operator(entry) == entry = "extended"

\* the entry points whose loop breaks on a reply holding the error text
\* (main_local_fixed.py lines 134-136)
breaks_on_error(entry) == entry = "local_fixed"

\* the agent calls of one run: the three agents of main_local_fixed (lines
\* 76-109), a bounded number of calls for the round loops of the other two
calls_of(entry) == IF entry = "local_fixed" THEN 3 ELSE MaxTurns

InitCli ==
    /\ k_entry \in Entries
    /\ k_pc = "calling"
    /\ k_log = <<>>
    /\ k_file = None
    /\ k_interrupted = FALSE
    /\ OnlyCli

\* a KeyboardInterrupt raised at the current point of the run: caught, the
\* loop breaks and the log is saved after it; not caught, the process ends
\* with the traceback and the statements after the loop never run
KeyboardInterrupt ==
    /\ k_interrupted' = TRUE
    /\ IF catches_keyboard_interrupt(k_entry)
         THEN k_file' = Some(k_log) /\ k_pc' = "finished"
         ELSE k_file' = k_file /\ k_pc' = "aborted"
    /\ UNCHANGED <<k_entry, k_log>>

\* the log is saved after the loop
SaveAfterLoop(log) ==
    /\ k_file' = Some(log)
    /\ k_pc' = "finished"

\* one agent call of the run
AgentCall ==
    /\ k_pc = "calling"
    /\ Len(k_log) < calls_of(k_entry)
    /\ \/ KeyboardInterrupt
       \/ \E text \in CallTexts, last \in BOOLEAN :
            LET log == Append(k_log, text)
                over == \/ last
                        \/ Len(log) = calls_of(k_entry)
                        \/ breaks_on_error(k_entry) /\ text = "error_text"
            IN  /\ k_log' = log
                /\ IF over
                     THEN SaveAfterLoop(log)
                     ELSE /\ k_pc' = IF prompts_operator(k_entry)
                                       THEN "prompt" ELSE "calling"
                          /\ k_file' = k_file
                /\ UNCHANGED <<k_entry, k_interrupted>>
    /\ UNCHANGED butCli

\* the operator prompt between two rounds (main_extended.py lines 300-311)
OperatorPrompt ==
    /\ k_pc = "prompt"
    /\ \/ KeyboardInterrupt
       \/ \E answer \in {"q", "enter"} :
            /\ IF answer = "q"
                 THEN SaveAfterLoop(k_log)
                 ELSE k_pc' = "calling" /\ k_file' = k_file
            /\ UNCHANGED <<k_entry, k_log, k_interrupted>>
    /\ UNCHANGED butCli

NextCli == AgentCall \/ OperatorPrompt

SpecCli == InitCli /\ [][NextCli]_vars

\* C21: in every interactive entry point a keyboard interrupt at any point
\* of a run stops the run gracefully, and the log data accumulated up to
\* that point is written to disk.
C21_InterruptPersists ==
    k_interrupted => k_pc = "finished" /\ k_file = Some(k_log)


(***************************************************************************)
(* SpecSearch: the simulators of web_search_agent.py.  A text is the       *)
(* sequence of its characters; " " is white space and "_" the underscore.  *)
(***************************************************************************)
\* the words of a text, as str.split() cuts them
RECURSIVE SplitFrom(_, _, _, _)
SplitFrom(text, i, word, acc) ==
    LET closed == IF word = <<>> THEN acc ELSE acc \cup {word}
    IN  IF i > Len(text) THEN closed
        ELSE IF text[i] = " " THEN SplitFrom(text, i + 1, <<>>, closed)
        ELSE SplitFrom(text, i + 1, Append(word, text[i]), acc)

Split(text) == SplitFrom(text, 1, <<>>, {})

\* queries, claims and topics: empty, white space only, one word, a word
\* with an underscore
Texts == {<<>>, <<" ">>, <<"a">>, <<"a", "_", "b">>}

\* time periods
Periods == {<<"w">>, <<"b", "_", "w">>}

\* the keys of search_engines and the number of simulated results of each
SearchEngines == {"web", "news", "academic", "social"}
Simulated(engine) ==
    CASE engine = "web" -> 3
      [] engine = "news" -> 2
      [] engine = "academic" -> 2
      [] engine = "social" -> 1

\* _calculate_relevance divides by len(query_terms): defined only when the
\* query has a word
calculate_relevance_raises(query) == Cardinality(Split(query)) = 0

\* search_for_topic: the results of the engine (the web engine for an
\* unknown type), each scored; the scores themselves are not kept, only the
\* number of results.  The history grows only when the call returns.
search_for_topic(query, search_type, max_results) ==
    LET engine == IF search_type \in SearchEngines THEN search_type ELSE "web"
        n == Min(Simulated(engine), max_results)
    IN  IF n > 0 /\ calculate_relevance_raises(query)
          THEN [raised |-> TRUE, n |-> 0, ran |-> 0]
          ELSE [raised |-> FALSE, n |-> n, ran |-> 1]

\* the searches of a list run in order, up to the first that raises
RECURSIVE RunSearches(_, _, _)
RunSearches(searches, i, done) ==
    IF i > Len(searches) THEN done
    ELSE LET s == search_for_topic(searches[i].query, searches[i].type,
                                   searches[i].max)
         IN  IF s.raised
               THEN [raised |-> TRUE, n |-> done.n, ran |-> done.ran]
               ELSE RunSearches(searches, i + 1,
                       [raised |-> FALSE, n |-> done.n + s.n,
                        ran |-> done.ran + 1])

Search(q, ty, mx) == [query |-> q, type |-> ty, max |-> mx]
NoneRun == [raised |-> FALSE, n |-> 0, ran |-> 0]

Cached(cache, key) == \E e \in cache : e.key = key
Lookup(cache, key) == (CHOOSE e \in cache : e.key = key).value
Store(cache, key, value) ==
    {e \in cache : e.key # key} \cup {[key |-> key, value |-> value]}

\* the key of trend_cache: f"{topic}_{time_period}"
cache_key(topic, time_period) == topic \o <<"_">> \o time_period

\* _calculate_momentum draws one of the four levels
Momentum == {"declining", "stable", "growing", "viral"}

\* the verdicts of _analyze_claim_validity, which counts indicator words in
\* the titles and snippets, the claim's own words among them
Verdicts == {"true", "false", "disputed", "partially_true", "unverified"}

NoValue == [text |-> <<>>, period |-> <<>>, word |-> "none"]

NoCall ==
    [fn |-> "none", text |-> <<>>, type |-> "none", period |-> <<>>,
     max |-> 0, raised |-> FALSE, hit |-> FALSE, ran |-> 0,
     value |-> NoValue]

InitSearch ==
    /\ w_searches = 0
    /\ w_fact_cache = {}
    /\ w_trend_cache = {}
    /\ w_last = NoCall
    /\ OnlySearch

\* WebSearchAgent.search_for_topic(query, search_type, max_results)
SearchForTopic ==
    /\ w_searches + 3 <= MaxSearches
    /\ \E query \in Texts, search_type \in SearchEngines \cup {"video"},
          max_results \in {0, 5} :
         LET s == search_for_topic(query, search_type, max_results)
         IN  /\ w_searches' = w_searches + s.ran
             /\ w_last' = [NoCall EXCEPT !.fn = "search_for_topic",
                              !.text = query, !.type = search_type,
                              !.max = max_results, !.raised = s.raised,
                              !.ran = s.ran]
    /\ UNCHANGED <<w_fact_cache, w_trend_cache>>
    /\ UNCHANGED butSearch

\* FactChecker.verify_claim(claim)
VerifyClaim ==
    /\ w_searches + 3 <= MaxSearches
    /\ \E claim \in Texts, verdict \in Verdicts :
         IF Cached(w_fact_cache, claim)
           THEN /\ w_last' = [NoCall EXCEPT !.fn = "verify_claim",
                                 !.text = claim, !.hit = TRUE,
                                 !.value = Lookup(w_fact_cache, claim)]
                /\ UNCHANGED <<w_searches, w_fact_cache>>
           ELSE LET s == RunSearches(
                           <<Search(<<"f", " ", "c", " ">> \o claim, "web", 3),
                             Search(claim, "news", 2),
                             Search(claim, "academic", 2)>>, 1, NoneRun)
                    value == [text |-> claim, period |-> <<>>,
                              word |-> verdict]
                IN  /\ w_searches' = w_searches + s.ran
                    /\ w_fact_cache' =
                         IF s.raised THEN w_fact_cache
                         ELSE Store(w_fact_cache, claim, value)
                    /\ w_last' = [NoCall EXCEPT !.fn = "verify_claim",
                                     !.text = claim, !.raised = s.raised,
                                     !.ran = s.ran,
                                     !.value = IF s.raised THEN NoValue
                                               ELSE value]
    /\ UNCHANGED w_trend_cache
    /\ UNCHANGED butSearch

\* TrendAnalyzer.analyze_trend(topic, time_period)
AnalyzeTrend ==
    /\ w_searches + 3 <= MaxSearches
    /\ \E topic \in Texts, time_period \in Periods, momentum \in Momentum :
         LET key == cache_key(topic, time_period)
         IN  IF Cached(w_trend_cache, key)
               THEN /\ w_last' = [NoCall EXCEPT !.fn = "analyze_trend",
                                     !.text = topic, !.period = time_period,
                                     !.hit = TRUE,
                                     !.value = Lookup(w_trend_cache, key)]
                    /\ UNCHANGED <<w_searches, w_trend_cache>>
               ELSE LET s == RunSearches(
                               <<Search(topic \o <<" ", "l", " ", "n">>,
                                        "news", 5),
                                 Search(topic, "web", 5),
                                 Search(topic, "social", 3)>>, 1, NoneRun)
                        value == [text |-> topic, period |-> time_period,
                                  word |-> momentum]
                    IN  /\ w_searches' = w_searches + s.ran
                        /\ w_trend_cache' =
                             IF s.raised THEN w_trend_cache
                             ELSE Store(w_trend_cache, key, value)
                        /\ w_last' = [NoCall EXCEPT !.fn = "analyze_trend",
                                         !.text = topic,
                                         !.period = time_period,
                                         !.raised = s.raised, !.ran = s.ran,
                                         !.value = IF s.raised THEN NoValue
                                                   ELSE value]
    /\ UNCHANGED w_fact_cache
    /\ UNCHANGED butSearch

NextSearch == SearchForTopic \/ VerifyClaim \/ AnalyzeTrend

SpecSearch == InitSearch /\ [][NextSearch]_vars

\* C22: search_for_topic, verify_claim and analyze_trend return a result for
\* every query, claim or topic, the empty and the white-space-only string
\* and an unrecognised search type included: none of them raises.
C22_NeverRaises == ~w_last.raised

\* C24: analyze_trend is memoized by the pair (topic, period): the result it
\* returns was computed for exactly that topic and that period, and a call
\* answered from the cache runs no search.
C24_MemoizedByPair ==
    (w_last.fn = "analyze_trend" /\ ~w_last.raised) =>
        /\ w_last.value.text = w_last.text
        /\ w_last.value.period = w_last.period
        /\ w_last.hit => w_last.ran = 0


(***************************************************************************)
(* Further properties of SpecAnalysis.                                     *)
(***************************************************************************)
AgentNames(opinions) == {opinions[i].agent_name : i \in 1..Len(opinions)}

\* C23: a simulated vote is run, and voting_result is not null, exactly
\* when the computed conflict level is moderate or strong; when it is run,
\* the voters are exactly the agent names of the round's opinions.
C23_VoteOnConflict ==
    a_pc = "done" =>
        LET analysis == a_analysis[1]
        IN  /\ analysis.voting_result # None
                <=> analysis.conflict_level \in {"moderate", "strong"}
            /\ analysis.voting_result # None =>
                 /\ DOMAIN analysis.voting_result[1].votes
                      = AgentNames(a_opinions)
                 /\ analysis.voting_result[1].total_votes
                      = Cardinality(AgentNames(a_opinions))

C23_Witness ==
    /\ a_pc = "done"
    /\ TypesOf(a_opinions) = <<"agree", "disagree", "neutral">>
    /\ a_analysis[1].conflict_level = "moderate"
    /\ a_analysis[1].voting_result # None
    /\ DOMAIN a_analysis[1].voting_result[1].votes = {1, 2, 3}

\* C30: a round of two or more opinions that are all agree or
\* strongly_agree is never classified as moderate or strong conflict, and
\* so never triggers a simulated vote.
C30_AgreementIsNoConflict ==
    (/\ a_pc = "done"
     /\ Len(a_opinions) >= 2
     /\ \A i \in 1..Len(a_opinions) :
           a_opinions[i].opinion_type \in {"agree", "strongly_agree"}) =>
        /\ a_analysis[1].conflict_level \notin {"moderate", "strong"}
        /\ a_analysis[1].voting_result = None


(***************************************************************************)
(* SpecListing: the session files of intelligent_collaboration_logs and    *)
(* ResultAnalyzer.list_available_sessions.  A session id is the sequence   *)
(* of its character codes, so that sorted() compares ids as Python         *)
(* compares strings.                                                       *)
(***************************************************************************)
\* strftime("%Y%m%d_%H%M%S") of the clock: fixed width, digits only (the
\* code of "0" is 48), later seconds give greater strings
Stamp(clock) == <<48 + clock>>

\* the id of a live run (main_intelligent_collaboration.py line 39) and of a
\* fixture session, f"demo_{...}" (test_integration.py line 263): the codes
\* of "d", "e", "m", "o", "_" are 100, 101, 109, 111, 95
live_session_id(clock) == Stamp(clock)
demo_session_id(clock) == <<100, 101, 109, 111, 95>> \o Stamp(clock)

\* str < str: the first differing character decides, a proper prefix is less
RECURSIVE StrLess(_, _)
StrLess(a, b) ==
    IF b = <<>> THEN FALSE
    ELSE IF a = <<>> THEN TRUE
    ELSE IF Head(a) # Head(b) THEN Head(a) < Head(b)
    ELSE StrLess(Tail(a), Tail(b))

\* sorted(sessions, key=session_id, reverse=True); the ids of a directory
\* are distinct, being parts of file names
RECURSIVE SortedDescending(_)
SortedDescending(sessions) ==
    IF sessions = {} THEN <<>>
    ELSE LET top == CHOOSE x \in sessions :
                       \A y \in sessions \ {x} : StrLess(y.session_id, x.session_id)
         IN  <<top>> \o SortedDescending(sessions \ {top})

\* the files the listing keeps: intelligent_session_*.json
list_available_sessions(dir) ==
    SortedDescending({[session_id |-> f.id, created_time |-> f.created] :
                        f \in {g \in dir : g.session}})

InitListing ==
    /\ n_clock = 0
    /\ n_dir = {}
    /\ n_listing = None
    /\ OnlyListing

\* a file written into the directory at the current second
WriteFile(session, id) ==
    /\ n_clock < MaxFiles
    /\ n_dir' = n_dir \cup {[session |-> session, id |-> id, created |-> n_clock]}
    /\ n_clock' = n_clock + 1
    /\ UNCHANGED n_listing
    /\ UNCHANGED butListing

\* IntelligentCollaborationSystem()._save_session_log of a live run
LiveRun == WriteFile(TRUE, live_session_id(n_clock))

\* test_integration.create_demo_session
CreateDemoSession == WriteFile(TRUE, demo_session_id(n_clock))

\* any other file of the directory, which the listing skips
OtherFile == WriteFile(FALSE, Stamp(n_clock))

ListAvailableSessions ==
    /\ n_listing' = Some(list_available_sessions(n_dir))
    /\ UNCHANGED <<n_clock, n_dir>>
    /\ UNCHANGED butListing

NextListing == LiveRun \/ CreateDemoSession \/ OtherFile \/ ListAvailableSessions

SpecListing == InitListing /\ [][NextListing]_vars

\* C25: list_available_sessions returns the sessions newest first: a session
\* created later never appears after a session created earlier, also in a
\* mix of live sessions and fixture sessions.
C25_NewestFirst ==
    n_listing # None =>
        \A i, j \in 1..Len(n_listing[1]) :
            i < j => n_listing[1][i].created_time >= n_listing[1][j].created_time


(***************************************************************************)
(* SpecClassifier: _extract_opinion_from_response on reply texts.  A reply *)
(* is a sequence of words; Japanese is written without spaces, so a phrase *)
(* occurs in the reply when its words occur next to each other.            *)
(*   "strongly" 強く   "completely" 完全に   "absolutely" 絶対に           *)
(*   "agree" 賛成   "consent" 同意   "good" 良い   "right" 正しい          *)
(*   "oppose" 反対   "objection" 異議   "problem" 問題   "concern" 懸念    *)
(***************************************************************************)
Words ==
    {"strongly", "completely", "absolutely", "agree", "consent", "good",
     "right", "oppose", "objection", "problem", "concern", "other"}

\* the phrase lists of lines 265, 267, 269 and 271
StronglyAgreePhrases ==
    {<<"strongly", "agree">>, <<"completely", "consent">>, <<"absolutely">>}
AgreePhrases == {<<"agree">>, <<"consent">>, <<"good">>, <<"right">>}
DisagreePhrases ==
    {<<"oppose">>, <<"objection">>, <<"problem">>, <<"concern">>}
StronglyDisagreePhrases ==
    {<<"strongly", "oppose">>, <<"completely", "oppose">>,
     <<"absolutely", "oppose">>}

\* word in response_lower
Occurs(phrase, response) ==
    \E i \in 1..Len(response) - Len(phrase) + 1 :
        SubSeq(response, i, i + Len(phrase) - 1) = phrase

\* any(word in response_lower for word in [...])
AnyOccurs(phrases, response) == \E phrase \in phrases : Occurs(phrase, response)

\* which of the four tests of the cascade a reply passes
PhraseTests(response) ==
    [sa |-> AnyOccurs(StronglyAgreePhrases, response),
     ag |-> AnyOccurs(AgreePhrases, response),
     dis |-> AnyOccurs(DisagreePhrases, response),
     sd |-> AnyOccurs(StronglyDisagreePhrases, response)]

InitClassifier ==
    /\ q_response \in SeqsUpTo(Words, MaxWords)
    /\ q_opinion = None
    /\ OnlyClassifier

ExtractOpinionFromResponse ==
    /\ q_opinion = None
    /\ q_opinion' = Some(extract_opinion_from_response(PhraseTests(q_response)))
    /\ UNCHANGED q_response
    /\ UNCHANGED butClassifier

NextClassifier == ExtractOpinionFromResponse

SpecClassifier == InitClassifier /\ [][NextClassifier]_vars

\* C26: the classifier is a first-match cascade over the reply text in the
\* order strong-agreement phrases, agreement phrases, plain-disagreement
\* phrases, strong-disagreement phrases, else neutral; so no reply text is
\* classified strongly_disagree.
C26_Cascade ==
    q_opinion # None =>
        LET type == q_opinion[1]
            sa == AnyOccurs(StronglyAgreePhrases, q_response)
            ag == AnyOccurs(AgreePhrases, q_response)
            dis == AnyOccurs(DisagreePhrases, q_response)
            sd == AnyOccurs(StronglyDisagreePhrases, q_response)
        IN  /\ type = "strongly_agree" <=> sa
            /\ type = "agree" <=> (~sa /\ ag)
            /\ type = "disagree" <=> (~sa /\ ~ag /\ dis)
            /\ type = "neutral" <=> (~sa /\ ~ag /\ ~dis /\ ~sd)
            /\ type # "strongly_disagree"

C26_Witness ==
    /\ q_response = <<"strongly", "oppose">>
    /\ q_opinion = Some("disagree")


(***************************************************************************)
(* SpecTools: MCPToolsManager.suggest_tools_for_context.  The context text *)
(* is given by the keyword groups it holds: library (line 200), analysis   *)
(* (line 208), code (line 216) and the technology keyword of line 227.     *)
(***************************************************************************)
Tools == {"context7", "gemini-cli", "ide"}
AgentRoles ==
    {"creative_storyteller", "careful_verifier", "strategic_coordinator",
     "other"}
Contexts == [library : BOOLEAN, analysis : BOOLEAN, code : BOOLEAN,
             technology : BOOLEAN]

Suggestion(tool, action) == [tool |-> tool, action |-> action]

\* the suggestion appended when the condition holds
When(cond, suggestion) == IF cond THEN <<suggestion>> ELSE <<>>

\* the suggestions in the order the code appends them, before the cut
all_suggestions(available, context, agent_role) ==
    LET by_context ==
            When(context.library /\ available["context7"],
                 Suggestion("context7", "library_docs"))
            \o When(context.analysis /\ available["gemini-cli"],
                    Suggestion("gemini-cli", "detailed_analysis"))
            \o When(context.code /\ available["ide"],
                    Suggestion("ide", "code_analysis"))
        by_role ==
            IF agent_role = "creative_storyteller"
              THEN When(available["context7"] /\ context.technology,
                        Suggestion("context7", "technology_trends"))
            ELSE IF agent_role = "careful_verifier"
              THEN When(available["gemini-cli"],
                        Suggestion("gemini-cli", "fact_check"))
            ELSE IF agent_role = "strategic_coordinator"
              THEN When(available["context7"],
                        Suggestion("context7", "integrated_analysis"))
                   \o When(available["gemini-cli"],
                           Suggestion("gemini-cli", "integrated_analysis"))
                   \o When(available["ide"],
                           Suggestion("ide", "integrated_analysis"))
            ELSE <<>>
    IN  by_context \o by_role

\* return suggestions[:3]
suggest_tools_for_context(available, context, agent_role) ==
    Take(all_suggestions(available, context, agent_role), 3)

InitTools ==
    /\ t_available \in [Tools -> BOOLEAN]
    /\ t_context \in Contexts
    /\ t_role \in AgentRoles
    /\ t_suggestions = None
    /\ OnlyTools

SuggestToolsForContext ==
    /\ t_suggestions = None
    /\ t_suggestions' =
         Some(suggest_tools_for_context(t_available, t_context, t_role))
    /\ UNCHANGED <<t_available, t_context, t_role>>
    /\ UNCHANGED butTools

NextTools == SuggestToolsForContext

SpecTools == InitTools /\ [][NextTools]_vars

\* C27: when the analysis tool is available, the suggestions returned for
\* the verifier role always contain the verifier's analysis-tool nudge,
\* whichever keyword groups the context also matches.
C27_VerifierNudge ==
    (/\ t_suggestions # None
     /\ t_role = "careful_verifier"
     /\ t_available["gemini-cli"]) =>
        \E i \in 1..Len(t_suggestions[1]) :
            t_suggestions[1][i] = Suggestion("gemini-cli", "fact_check")


(***************************************************************************)
(* A further property of SpecExtended.                                     *)
(***************************************************************************)
\* C28: the summary of the recent rounds that a round is given holds
\* messages of the last 3 rounds at most, the round in progress counted,
\* and never a message of an older round.
C28_RecentRounds ==
    \A k \in 1..Len(e_rounds) :
        \A i \in 1..Len(e_rounds[k].context) :
            e_rounds[k].context[i].round > k - 3


(***************************************************************************)
(* SpecSessionResult: run_intelligent_discussion from its arguments to the *)
(* session result, for any number of agents asked for.  What is said in a  *)
(* round is the matter of SpecDiscussion; here a round only counts, and    *)
(* whether it ends the discussion is left open.                            *)
(***************************************************************************)
\* topics: without a term, with terms but no keyword, with a keyword of an
\* area that has a template, with a keyword of an area that has none
SessionTopics ==
    {[terms |-> FALSE, scores |-> NoKeywords],
     [terms |-> TRUE, scores |-> NoKeywords],
     [terms |-> TRUE, scores |-> [NoKeywords EXCEPT !["social"] = 1]],
     [terms |-> TRUE, scores |-> [NoKeywords EXCEPT !["legal"] = 1]]}

\* session_result, lines 94-108: the fields the discussion does not fill
session_result(num_agents, max_rounds, agents, rounds) ==
    [session_info |-> [num_agents |-> num_agents,
                       max_rounds |-> max_rounds,
                       actual_rounds |-> rounds],
     agents |-> agents]

InitSessionResult ==
    /\ v_pc = "phase1"
    /\ v_topic \in SessionTopics
    /\ v_num_agents \in 1..Len(ExpertiseArea)
    /\ v_max_rounds \in 0..MaxRounds
    /\ v_agents = <<>>
    /\ v_rounds = 0
    /\ v_result = None
    /\ OnlyResult

\* Phase 1: _generate_specialized_agents
SpecializedAgents ==
    /\ v_pc = "phase1"
    /\ v_agents' = analyze_topic_and_generate_agents(v_topic.scores, v_num_agents)
    /\ v_pc' = "phase2"
    /\ UNCHANGED <<v_topic, v_num_agents, v_max_rounds, v_rounds, v_result>>
    /\ UNCHANGED butResult

\* Phase 2: _gather_background_information, whose search raises for a topic
\* without a term
BackgroundInformation ==
    /\ v_pc = "phase2"
    /\ v_pc' = IF ~v_topic.terms THEN "error"
               ELSE IF v_max_rounds >= 1 THEN "round" ELSE "phase4"
    /\ UNCHANGED <<v_topic, v_num_agents, v_max_rounds, v_agents, v_rounds,
                   v_result>>
    /\ UNCHANGED butResult

\* Phase 3: one round of the loop; ends is _should_end_discussion
DiscussionRound ==
    /\ v_pc = "round"
    /\ v_rounds' = v_rounds + 1
    /\ \E ends \in BOOLEAN :
         v_pc' = IF ends \/ v_rounds + 1 >= v_max_rounds THEN "phase4"
                 ELSE "round"
    /\ UNCHANGED <<v_topic, v_num_agents, v_max_rounds, v_agents, v_result>>
    /\ UNCHANGED butResult

\* Phase 4 and the session result; _calculate_overall_metrics divides by the
\* number of opinions
SessionResult ==
    /\ v_pc = "phase4"
    /\ IF v_rounds * Len(v_agents) = 0
         THEN v_pc' = "error" /\ v_result' = v_result
         ELSE /\ v_pc' = "done"
              /\ v_result' = Some(session_result(v_num_agents, v_max_rounds,
                                                 v_agents, v_rounds))
    /\ UNCHANGED <<v_topic, v_num_agents, v_max_rounds, v_agents, v_rounds>>
    /\ UNCHANGED butResult

NextSessionResult ==
    \/ SpecializedAgents
    \/ BackgroundInformation
    \/ DiscussionRound
    \/ SessionResult

SpecSessionResult == InitSessionResult /\ [][NextSessionResult]_vars

\* C29: in every session result session_info.num_agents is the number of
\* agent profiles listed in the result's agents field, also when the
\* factory returned fewer profiles than were asked for.
C29_NumAgents ==
    v_result # None =>
        v_result[1].session_info.num_agents = Len(v_result[1].agents)

====
